---- MODULE Spec2Model ----
(***************************************************************************)
(* A model of the duplex IPC connection of src/ipc/connection.py           *)
(* (class Connection) running on the trio scheduler: the attach run loop   *)
(* with its reader, writer and dispatch tasks, the capacity-0 outbox       *)
(* channel, the Result cells of src/ipc/utils.py and the request counter.  *)
(*                                                                         *)
(* Tasks of one process run one at a time; every action below is the code  *)
(* one task runs between two suspension points.  Callers of send/notify    *)
(* are tasks outside the connection's cancel scope; the reader, the writer *)
(* and the dispatch tasks are inside it.  A cancel reaches a task that is  *)
(* parked on an event or on the channel at once; a task that is inside a   *)
(* socket operation either completes it or is cancelled.                   *)
(***************************************************************************)
EXTENDS Integers, Sequences, FiniteSets, TLC

\* ---------------------------------------------------------------- bounds
\* Tasks that call send or notify, each once.
NumCallers == 2
\* Frames the peer delivers before the reader sees nothing more.
MaxFrames == 1
\* The limit of the request counter: INT32_MAX in the code, scaled down so
\* that the counter wraps within the model.
MaxNum == 2
\* Sends the callers of SpecAlloc start in all.
MaxCalls == 3
\* Frames the peer delivers in the nested handshake (SpecNested).
NestedFrames == 3
\* Sockets the listener accepts (SpecServer).
MaxConns == 3
\* The highest descriptor of the process's table (SpecFd).
MaxFd == 4
\* Items of a list and entries of a dict that is serialized (SpecCodec).
MaxItems == 2
\* Fd handles in the values serialized.
MaxHandles == 2
\* The data's length that truncation and marker replacement reach.
MaxOffset == 64

\* ------------------------------------------------------------- constants
REQUEST == 1
RESPONSE == 2
NOTIFICATION == 4

None == "None"
Closed == "ClosedResourceError"
TransportError == "TransportError"
WriteError == "OSError"
HandlerError == "HandlerError"
KeyError == "KeyError"
RuntimeError == "RuntimeError"
TypeError == "TypeError"
BrokenResourceError == "BrokenResourceError"
Cancelled == "Cancelled"
HandlerFailure == "ErrorHandlerFailure"
MultiError == "MultiError"

VARIABLES
    apc,        \* attach: "init", "running", "closing", "returned", "raised"
    attachExc,  \* the exception attach ends with (None: none)
    error,      \* Connection._error, the sticky error
    scope,      \* Connection._scope: "none", "active", "cancelled"
    socket,     \* Connection._socket: "none", "open", "closed"
    outbox,     \* the memory channel: "none", "open", "closed" (receiver closed)
    sendTasks,  \* senders parked on the outbox, oldest first
    requests,   \* Connection._requests: num -> the task whose Result it holds
    counter,    \* WrappedCounter.value of Connection._counter
    wpc,        \* writer task: "idle", "start", "receive", "write", "done"
    wmsg,       \* the message the writer holds
    rpc,        \* reader task: "idle", "read", "exiting", "done"
    readerExc,  \* first exception raised into the reader's nursery
    disp,       \* dispatch tasks, one per frame read, in read order
    cell,       \* Result cells, one per task
    cpc,        \* callers: "idle", "parked", "wait", "returned", "raised"
    ckind,      \* callers: "none", "send", "notify"
    cnum,       \* callers: request number allocated by send (0: none)
    cval,       \* callers: data returned by send (index of the frame read)
    cexc,       \* callers: exception raised
    wire,       \* frames written to the transport, in order
    submitted,  \* tasks in the order they offered a message to the outbox
    peerClosed, \* the reader got NoDataError
    calls,      \* calls counted where callers call again (SpecAlloc, SpecWrap)
    \* ---- the listener (server.py)
    servePc,    \* serve: "init", "accepting", "draining", "returned", "raised"
    serveExc,   \* the exception serve ends with (None: none)
    srvScope,   \* Server._scope: "none", "active", "cancelled" (by close()
                \* while serve ran), "exited" (serve ended uncancelled)
    srvSocket,  \* Server._socket: "none", "open", "closed"
    connections,\* Server.connections: num -> index of the accepted connection
    srvCounter, \* WrappedCounter.value of Server._counter
    conn,       \* the _accept tasks, one per accepted socket, in accept order
    nurseryExc, \* exceptions raised into serve's nursery, in order
    \* ---- the value types (types.py, codecs.py)
    fd,         \* one Fd handle and the process's descriptor table
    codec,      \* one serialize / deserialize run
    \* ---- a second attach or connect on the connection
    again       \* how the call ended (NoAgain: not made)

connVars == <<apc, attachExc, error, scope, socket, outbox, sendTasks, requests,
              counter, wpc, wmsg, rpc, readerExc, disp, cell, cpc, ckind, cnum,
              cval, cexc, wire, submitted, peerClosed, calls>>
srvVars == <<servePc, serveExc, srvScope, srvSocket, connections, srvCounter,
             conn, nurseryExc>>
libVars == <<fd, codec, again>>
vars == <<connVars, srvVars, libVars>>

Callers == 1..NumCallers
Tasks == 1..(NumCallers + MaxFrames)
\* The task of the i-th frame's dispatch.
DispTask(i) == NumCallers + i
Nums == 1..MaxNum

NoMsg == [task |-> 0, num |-> 0, flags |-> 0, needs |-> FALSE]
Message(t, n, f, needs) == [task |-> t, num |-> n, flags |-> f, needs |-> needs]
OnWire(m) == [task |-> m.task, num |-> m.num, flags |-> m.flags]

\* ------------------------------------------------------- Result (utils.py)
NewResult == [event |-> FALSE, value |-> 0, error |-> None]
ResultSet(cl, t, v) == [cl EXCEPT ![t] = [@ EXCEPT !.event = TRUE, !.value = v]]
ResultFailNoError(cl, t, e) == [cl EXCEPT ![t] = [@ EXCEPT !.event = TRUE]]

ResultFail(cl, t, e) == [cl EXCEPT ![t] = [@ EXCEPT !.event = TRUE, !.error = e]]

\* ----------------------------------------------- WrappedCounter (utils.py)
CounterStart == 1
\* A counter that wraps to zero.
CounterNextFromZero(v) ==
    IF v >= MaxNum THEN [ret |-> MaxNum, value |-> 0]
    ELSE [ret |-> v, value |-> v + 1]

CounterNext(v) ==
    IF v >= MaxNum THEN [ret |-> MaxNum, value |-> CounterStart]
    ELSE [ret |-> v, value |-> v + 1]

\* send's loop: advance the counter until a number that is no key of reqs.
RECURSIVE AllocLoop(_, _)
AllocLoop(v, reqs) ==
    LET r == CounterNext(v)
    IN  IF r.ret \notin DOMAIN reqs THEN r ELSE AllocLoop(r.value, reqs)

AllocNoCheck(v, reqs) == CounterNext(v)

AllocNum(v, reqs) == AllocLoop(v, reqs)

\* ------------------------------------------------------------ _set_error
\* A _set_error that records the latest error.
SetErrorLatest(e) == e

SetError(e) == IF error = None THEN e ELSE error

\* ------------------------------------------------------ _check_not_closed
\* The exception _check_not_closed raises, None when it returns.
CheckOnlyChannel == IF outbox = "none" THEN Closed ELSE None

CheckNotClosed ==
    IF error # None THEN error
    ELSE IF outbox = "none" THEN Closed
    ELSE None

\* ----------------------------------------------------------- the outbox
\* receive / receive_nowait take the sender parked longest.
TakeLast(q) == [item |-> q[Len(q)], rest |-> SubSeq(q, 1, Len(q) - 1)]

TakeSender(q) == [item |-> Head(q), rest |-> Tail(q)]

HasFlag(flags, bit) == (flags \div bit) % 2 = 1

\* The sender of a message taken from the outbox resumes after its send.
WakeCaller(pcs, t) == IF t \in Callers THEN [pcs EXCEPT ![t] = "wait"] ELSE pcs
WakeDisp(d, t) ==
    IF t > NumCallers THEN [d EXCEPT ![t - NumCallers].pc = "wait"] ELSE d

\* --------------------------------------------------------- cancellation
\* A cancel ends every dispatch task that is parked; one whose Result is
\* already set or failed has been rescheduled and runs on.
DispParked(d, cl, i) ==
    \/ d[i].pc \in {"start", "parked"}
    \/ d[i].pc = "wait" /\ ~cl[DispTask(i)].event
CancelDisp(d, cl) ==
    [i \in DOMAIN d |-> IF DispParked(d, cl, i) THEN [d[i] EXCEPT !.pc = "done"]
                        ELSE d[i]]
\* Cancelled dispatch tasks leave the outbox's queue of senders.
CancelSenders(q) == SelectSeq(q, LAMBDA m: m.task \in Callers)
\* The writer parked in receive ends; inside a write it handles the cancel.
CancelWriter(p) == IF p \in {"start", "receive"} THEN "done" ELSE p

ScopeCancelled == scope = "cancelled"
ReaderCancelledNow == ScopeCancelled \/ readerExc # None
WriterCancelledNow == ScopeCancelled \/ (rpc = "done" /\ readerExc # None)

\* =============================================================== Fd
\* Fd of src/ipc/types.py: one handle, and the descriptors the process has
\* open.  fd.pc is "none" (no handle yet), "alive" or "destroyed".
\*   fd.value, fd.owned   Fd._value, Fd._auto_close
\*   fd.open     the descriptors open in the process
\*   fd.held     descriptors whose closing is up to the handle's users:
\*               the one a duplicating constructor was given, and those
\*               take() handed out
\*   fd.closes   os.close calls the handle made
\*   fd.op, fd.wasOwned, fd.ret, fd.exc   the last operation, the owned
\*               flag it found, what it returned (-1: nothing) or raised
Descriptors == 0..MaxFd
BadDescriptor == "OSError(EBADF)"

NoFd == [pc |-> "none", value |-> -1, owned |-> FALSE, open |-> {},
         held |-> {}, closes |-> 0, op |-> "none", wasOwned |-> FALSE,
         ret |-> -1, exc |-> None]

\* os.dup(v): the lowest free descriptor, or EBADF when v is not open.
LowestFree(open) == CHOOSE d \in Descriptors \ open :
                        \A e \in Descriptors \ open : d <= e
Dup(open, v) ==
    IF v \notin open THEN [ret |-> -1, exc |-> BadDescriptor, open |-> open]
    ELSE [ret |-> LowestFree(open), exc |-> None,
          open |-> open \cup {LowestFree(open)}]

\* os.close(v).
OsClose(open, v) ==
    IF v \notin open THEN [exc |-> BadDescriptor, open |-> open]
    ELSE [exc |-> None, open |-> open \ {v}]

\* Fd(value, duplicate=dup) on a descriptor the caller has open.
FdInit(v, dup) ==
    LET d == Dup({v}, v)
    IN  [NoFd EXCEPT !.pc = "alive", !.owned = TRUE, !.op = "init",
                     !.value = IF dup THEN d.ret ELSE v,
                     !.open = IF dup THEN d.open ELSE {v},
                     !.held = IF dup THEN {v} ELSE {}]

FdGetOf(h) == [h EXCEPT !.op = "get", !.wasOwned = h.owned,
                        !.ret = h.value, !.exc = None]

FdTakeOf(h) ==
    IF h.owned
    THEN [h EXCEPT !.op = "take", !.wasOwned = TRUE, !.owned = FALSE,
                   !.ret = h.value, !.exc = None,
                   !.held = @ \cup {h.value}]
    ELSE LET d == Dup(h.open, h.value)
         IN  [h EXCEPT !.op = "take", !.wasOwned = FALSE,
                       !.ret = d.ret, !.exc = d.exc, !.open = d.open,
                       !.held = IF d.exc = None THEN @ \cup {d.ret} ELSE @]

\* close() that leaves the owned flag set.
FdCloseKeepsFlag(h) ==
    IF h.owned
    THEN LET c == OsClose(h.open, h.value)
         IN  [h EXCEPT !.op = "close", !.wasOwned = TRUE,
                       !.ret = -1, !.exc = c.exc, !.open = c.open,
                       !.closes = @ + 1]
    ELSE [h EXCEPT !.op = "close", !.wasOwned = FALSE, !.ret = -1,
                   !.exc = None]

FdCloseOf(h) ==
    IF h.owned
    THEN LET c == OsClose(h.open, h.value)
         IN  [h EXCEPT !.op = "close", !.wasOwned = TRUE, !.owned = FALSE,
                       !.ret = -1, !.exc = c.exc, !.open = c.open,
                       !.closes = @ + 1]
    ELSE [h EXCEPT !.op = "close", !.wasOwned = FALSE, !.ret = -1,
                   !.exc = None]

\* ============================================================ the codec
\* serialize / deserialize of src/ipc/codecs.py.  A native value is a
\* record [t, n, b, s]:
\*   t  "none", "bool", "int", "float", "str", "bytes", "bytearray",
\*      "list", "tuple", "dict", "fd", or "marker" (a Markers member the
\*      parser hands to the enclosing container)
\*   n  the number of a bool (0, 1), an int, an Fd handle or a marker
\*   b  the code points of a str, the bytes of a byte blob or of a float
\*   s  the items of a list or tuple; of a dict key, value, key, value,
\*      ... in insertion order
\* Data is a sequence of bytes.
V(t, n, b, s) == [t |-> t, n |-> n, b |-> b, s |-> s]
VNone == V("none", 0, <<>>, <<>>)
VBool(x) == V("bool", x, <<>>, <<>>)
VInt(x) == V("int", x, <<>>, <<>>)
VFloat(bs) == V("float", 0, bs, <<>>)
VStr(cps) == V("str", 0, cps, <<>>)
VBytes(bs) == V("bytes", 0, bs, <<>>)
VByteArray(bs) == V("bytearray", 0, bs, <<>>)
VList(items) == V("list", 0, <<>>, items)
VTuple(items) == V("tuple", 0, <<>>, items)
VDict(kvs) == V("dict", 0, <<>>, kvs)
VFd(h) == V("fd", h, <<>>, <<>>)
VMarker(m) == V("marker", m, <<>>, <<>>)

MARKER_FALSE == 0
MARKER_TRUE == 1
MARKER_NONE == 2
MARKER_INT64 == 3
MARKER_DOUBLE == 4
MARKER_STRING == 5
MARKER_BYTES == 6
MARKER_ARRAY_START == 7
MARKER_ARRAY_END == 8
MARKER_DICT_START == 9
MARKER_DICT_END == 10
MARKER_FD == 11

EncoderError == "EncoderError"
DecoderError == "DecoderError"
StructError == "struct.error"
IndexError == "IndexError"
ValueError == "ValueError"

\* ---- ipc.convert: integers as little-endian bytes.  Integers of the
\* model fit 16 bits; the bytes above are the sign's.
int32_to_bytes(x) == <<x % 256, (x \div 256) % 256, 0, 0>>

int64_to_bytes(x) ==
    [i \in 1..8 |-> IF i = 1 THEN x % 256
                    ELSE IF i = 2 THEN (x \div 256) % 256
                    ELSE IF x < 0 THEN 255 ELSE 0]

\* int_from_bytes of a field of the given width: a slice that is shorter
\* raises (struct.error, which deserialize catches).
int_from_bytes(bs, width) ==
    IF Len(bs) # width THEN [err |-> StructError, v |-> 0]
    ELSE [err |-> None,
          v |-> IF width = 8 /\ bs[8] >= 128
                THEN bs[1] + 256 * bs[2] - 65536
                ELSE bs[1] + 256 * bs[2]]

\* ---- str.encode('utf-8') and str(bytes, encoding='utf-8'), for code
\* points below U+0800 (one or two bytes each).
RECURSIVE Utf8Encode(_)
Utf8Encode(cps) ==
    IF cps = <<>> THEN <<>>
    ELSE (IF Head(cps) < 128 THEN <<Head(cps)>>
          ELSE <<192 + (Head(cps) \div 64), 128 + (Head(cps) % 64)>>)
         \o Utf8Encode(Tail(cps))

\* The code points of bs, or UnicodeDecodeError (a ValueError).
RECURSIVE Utf8Decode(_)
Utf8Decode(bs) ==
    IF bs = <<>> THEN [err |-> None, cps |-> <<>>]
    ELSE IF bs[1] < 128
    THEN LET r == Utf8Decode(Tail(bs))
         IN  [err |-> r.err, cps |-> <<bs[1]>> \o r.cps]
    ELSE IF bs[1] >= 194 /\ bs[1] < 224 /\ Len(bs) >= 2
            /\ bs[2] >= 128 /\ bs[2] < 192
    THEN LET r == Utf8Decode(Tail(Tail(bs)))
         IN  [err |-> r.err, cps |-> <<(bs[1] - 192) * 64 + (bs[2] - 128)>> \o r.cps]
    ELSE [err |-> ValueError, cps |-> <<>>]

\* data[i:j] of Python, 0-based, clamped to the data.
Min(a, b) == IF a <= b THEN a ELSE b
Slice(data, i, j) == SubSeq(data, Min(i, Len(data)) + 1, Min(j, Len(data)))
SliceFrom(data, i) == Slice(data, i, Len(data))

\* ---- _serialize: st is [data, fds, err], the buffer and the FD list so
\* far and the exception raised (None: none).
Put(st, bs) == [st EXCEPT !.data = @ \o bs]

RECURSIVE SerializeValue(_, _)
RECURSIVE SerializeItems(_, _)
SerializeItems(st, vs) ==
    IF vs = <<>> THEN st
    ELSE SerializeItems(SerializeValue(st, Head(vs)), Tail(vs))

SerializeValue(st, v) ==
    IF st.err # None THEN st
    ELSE IF v.t = "none" THEN Put(st, int32_to_bytes(MARKER_NONE))
    ELSE IF v.t = "bool" /\ v.n = 1 THEN Put(st, int32_to_bytes(MARKER_TRUE))
    ELSE IF v.t = "bool" /\ v.n = 0 THEN Put(st, int32_to_bytes(MARKER_FALSE))
    ELSE IF v.t \in {"bool", "int"}
    THEN Put(Put(st, int32_to_bytes(MARKER_INT64)), int64_to_bytes(v.n))
    ELSE IF v.t = "float"
    THEN Put(Put(st, int32_to_bytes(MARKER_DOUBLE)), v.b)
    ELSE IF v.t = "str"
    THEN LET bs == Utf8Encode(v.b)
         IN  Put(Put(Put(st, int32_to_bytes(MARKER_STRING)),
                     int32_to_bytes(Len(bs))), bs)
    ELSE IF v.t = "bytes"
    THEN Put(Put(Put(st, int32_to_bytes(MARKER_BYTES)),
                 int32_to_bytes(Len(v.b))), v.b)
    ELSE IF v.t \in {"list", "tuple"}
    THEN LET r == SerializeItems(Put(st, int32_to_bytes(MARKER_ARRAY_START)), v.s)
         IN  IF r.err # None THEN r
             ELSE Put(r, int32_to_bytes(MARKER_ARRAY_END))
    ELSE IF v.t = "dict"
    THEN LET r == SerializeItems(Put(st, int32_to_bytes(MARKER_DICT_START)), v.s)
         IN  IF r.err # None THEN r
             ELSE Put(r, int32_to_bytes(MARKER_DICT_END))
    ELSE IF v.t = "fd"
    THEN [Put(Put(st, int32_to_bytes(MARKER_FD)), int32_to_bytes(Len(st.fds)))
             EXCEPT !.fds = Append(@, v.n)]
    ELSE [st EXCEPT !.err = EncoderError]

serialize(v) == SerializeValue([data |-> <<>>, fds |-> <<>>, err |-> None], v)

\* ---- _deserialize: [rest, val, err], the data left, the value and the
\* exception raised (None: none).
\* A dict key must be hashable: a list, a dict and an Fd (which defines
\* __eq__ and no __hash__) are not.
Hashable(v) == v.t \in {"none", "bool", "int", "float", "str", "bytes"}
\* Equal as dict keys: True is 1 and False is 0.
KeyEq(a, b) ==
    IF a.t \in {"bool", "int"} /\ b.t \in {"bool", "int"} THEN a.n = b.n
    ELSE a = b
\* result[key] = value.
DictSet(kvs, k, v) ==
    IF \E i \in 1..(Len(kvs) \div 2) : KeyEq(kvs[2 * i - 1], k)
    THEN [j \in 1..Len(kvs) |->
             IF j % 2 = 0 /\ KeyEq(kvs[j - 1], k) THEN v ELSE kvs[j]]
    ELSE kvs \o <<k, v>>

Raise(e) == [rest |-> <<>>, val |-> VNone, err |-> e]
Return(rest, v) == [rest |-> rest, val |-> v, err |-> None]

\* str(data[8:end]) and data[8:end].tobytes(), length prefix n.
Counted(data, n, isStr) ==
    LET body == Slice(data, 8, 8 + n)
        u == Utf8Decode(body)
    IN  IF ~isStr THEN Return(SliceFrom(data, 8 + n), VBytes(body))
        ELSE IF u.err # None THEN Raise(u.err)
        ELSE Return(SliceFrom(data, 8 + n), VStr(u.cps))

\* result[key] = value: TypeError for a key that is not hashable.
DictStore(kvs, k, v) ==
    IF ~Hashable(k) THEN [err |-> TypeError, kvs |-> kvs]
    ELSE [err |-> None, kvs |-> DictSet(kvs, k, v)]

RECURSIVE DeserializeValue(_, _)
RECURSIVE ArrayLoop(_, _, _)
RECURSIVE DictLoop(_, _, _)

ArrayLoop(fds, data, acc) ==
    LET r == DeserializeValue(fds, data)
    IN  IF r.err # None THEN r
        ELSE IF r.val = VMarker(MARKER_ARRAY_END) THEN Return(r.rest, VList(acc))
        ELSE IF r.val.t = "marker" THEN Raise(DecoderError)
        ELSE ArrayLoop(fds, r.rest, Append(acc, r.val))

DictLoop(fds, data, acc) ==
    LET k == DeserializeValue(fds, data)
    IN  IF k.err # None THEN k
        ELSE IF k.val = VMarker(MARKER_DICT_END) THEN Return(k.rest, VDict(acc))
        ELSE IF k.val.t = "marker" THEN Raise(DecoderError)
        ELSE LET v == DeserializeValue(fds, k.rest)
             IN  IF v.err # None THEN v
                 ELSE IF v.val.t = "marker" THEN Raise(DecoderError)
                 ELSE LET d == DictStore(acc, k.val, v.val)
                      IN  IF d.err # None THEN Raise(d.err)
                          ELSE DictLoop(fds, v.rest, d.kvs)

DeserializeValue(fds, data) ==
    LET type == int_from_bytes(Slice(data, 0, 4), 4)
        word == int_from_bytes(Slice(data, 4, 8), 4)
        long == int_from_bytes(Slice(data, 4, 12), 8)
    IN  IF type.err # None THEN Raise(type.err)
        ELSE IF type.v = MARKER_NONE THEN Return(SliceFrom(data, 4), VNone)
        ELSE IF type.v = MARKER_FALSE THEN Return(SliceFrom(data, 4), VBool(0))
        ELSE IF type.v = MARKER_TRUE THEN Return(SliceFrom(data, 4), VBool(1))
        ELSE IF type.v = MARKER_FD
        THEN IF word.err # None THEN Raise(word.err)
             ELSE IF word.v >= Len(fds) THEN Raise(IndexError)
             ELSE Return(SliceFrom(data, 8), VFd(fds[word.v + 1]))
        ELSE IF type.v = MARKER_INT64
        THEN IF long.err # None THEN Raise(long.err)
             ELSE Return(SliceFrom(data, 12), VInt(long.v))
        ELSE IF type.v = MARKER_DOUBLE
        THEN IF long.err # None THEN Raise(long.err)
             ELSE Return(SliceFrom(data, 12), VFloat(Slice(data, 4, 12)))
        ELSE IF type.v \in {MARKER_STRING, MARKER_BYTES}
        THEN IF word.err # None THEN Raise(word.err)
             ELSE Counted(data, word.v, type.v = MARKER_STRING)
        ELSE IF type.v = MARKER_ARRAY_START
        THEN ArrayLoop(fds, SliceFrom(data, 4), <<>>)
        ELSE IF type.v = MARKER_DICT_START
        THEN DictLoop(fds, SliceFrom(data, 4), <<>>)
        ELSE IF type.v = MARKER_DICT_END
        THEN Return(SliceFrom(data, 4), VMarker(MARKER_DICT_END))
        ELSE IF type.v = MARKER_ARRAY_END
        THEN Return(SliceFrom(data, 4), VMarker(MARKER_ARRAY_END))
        ELSE Raise(DecoderError)

\* deserialize: ValueError, IndexError and struct.error become DecoderError;
\* data left over and a marker as the value are DecoderErrors.
deserialize(data, fds) ==
    LET r == DeserializeValue(fds, data)
    IN  IF r.err \in {ValueError, IndexError, StructError} THEN Raise(DecoderError)
        ELSE IF r.err # None THEN r
        ELSE IF r.rest # <<>> THEN Raise(DecoderError)
        ELSE IF r.val.t = "marker" THEN Raise(DecoderError)
        ELSE r

\* One run: "idle"; "encoded" (codec.value serialized into codec.data and
\* codec.fds, or codec.eerr raised); "decoded" (codec.out is what
\* deserialize of codec.data and codec.fds gave).  codec.how tells what
\* was done to the data in between ("valid": nothing).
NoCodec == [pc |-> "idle", value |-> VNone, data |-> <<>>, fds |-> <<>>,
            eerr |-> None, how |-> "valid", out |-> Raise(None)]

\* No second attach or connect has been made.
NoAgain == [via |-> "none", exc |-> None, sock |-> "none"]

Init ==
    /\ apc = "init" /\ attachExc = None /\ error = None
    /\ scope = "none" /\ socket = "none" /\ outbox = "none"
    /\ sendTasks = <<>> /\ requests = <<>> /\ counter = CounterStart
    /\ wpc = "idle" /\ wmsg = NoMsg /\ rpc = "idle" /\ readerExc = None
    /\ disp = <<>>
    /\ cell = [t \in Tasks |-> NewResult]
    /\ cpc = [c \in Callers |-> "idle"]
    /\ ckind = [c \in Callers |-> "none"]
    /\ cnum = [c \in Callers |-> 0]
    /\ cval = [c \in Callers |-> 0]
    /\ cexc = [c \in Callers |-> None]
    /\ wire = <<>> /\ submitted = <<>> /\ peerClosed = FALSE /\ calls = 0
    /\ servePc = "init" /\ serveExc = None
    /\ srvScope = "none" /\ srvSocket = "none"
    /\ connections = <<>> /\ srvCounter = CounterStart
    /\ conn = <<>> /\ nurseryExc = <<>>
    /\ fd = NoFd /\ codec = NoCodec /\ again = NoAgain

\* ---------------------------------------------------------------- attach
\* attach up to the start of the reader and the writer.
Attach ==
    /\ apc = "init" /\ scope = "none"
    /\ apc' = "running"
    /\ socket' = "open" /\ outbox' = "open" /\ scope' = "active"
    /\ rpc' = "read" /\ wpc' = "start"
    /\ UNCHANGED <<attachExc, error, sendTasks, requests, counter, wmsg,
                   readerExc, disp, cell, cpc, ckind, cnum, cval, cexc, wire,
                   submitted, peerClosed>>
    /\ calls' = calls /\ UNCHANGED <<srvVars, libVars>>

\* ------------------------------------------------------------ send, notify
\* _outbox_sender.send(m) by caller c: the parked writer takes it at once,
\* else the caller parks.
Offer(c, m) ==
    /\ submitted' = Append(submitted, c)
    /\ IF wpc = "receive"
       THEN /\ wpc' = "write" /\ wmsg' = m
            /\ sendTasks' = sendTasks
            /\ cpc' = [cpc EXCEPT ![c] = "wait"]
       ELSE /\ wpc' = wpc /\ wmsg' = wmsg
            /\ sendTasks' = Append(sendTasks, m)
            /\ cpc' = [cpc EXCEPT ![c] = "parked"]

CallFails(c, e) ==
    /\ cpc' = [cpc EXCEPT ![c] = "raised"]
    /\ cexc' = [cexc EXCEPT ![c] = e]
    /\ UNCHANGED <<requests, counter, cnum, sendTasks, wpc, wmsg, submitted>>

\* Callers are interchangeable: they start in the order of their numbers.
CallerTurn(c) == cpc[c] = "idle" /\ \A d \in Callers : d < c => cpc[d] # "idle"

\* send's allocation: a Result under a number that is no key of _requests.
\* (With every number in use the loop would not end: no step.)
Allocate(c) ==
    /\ \E n \in Nums : n \notin DOMAIN requests
    /\ LET a == AllocNum(counter, requests)
       IN  /\ counter' = a.value
           /\ cnum' = [cnum EXCEPT ![c] = a.ret]
           /\ requests' = [n \in DOMAIN requests \cup {a.ret} |->
                             IF n = a.ret THEN c ELSE requests[n]]

\* send's last statement: del self._requests[num].
Release(c) == [n \in DOMAIN requests \ {cnum[c]} |-> requests[n]]

Send(c) ==
    /\ CallerTurn(c)
    /\ IF CheckNotClosed # None
       THEN CallFails(c, CheckNotClosed) /\ ckind' = ckind
       ELSE /\ Allocate(c)
            /\ Offer(c, Message(c, cnum'[c], REQUEST, TRUE))
            /\ ckind' = [ckind EXCEPT ![c] = "send"]
            /\ cexc' = cexc
    /\ UNCHANGED <<apc, attachExc, error, scope, socket, outbox, rpc,
                   readerExc, disp, cell, cval, wire, peerClosed>>
    /\ calls' = calls /\ UNCHANGED <<srvVars, libVars>>

Notify(c) ==
    /\ CallerTurn(c)
    /\ IF CheckNotClosed # None
       THEN CallFails(c, CheckNotClosed) /\ ckind' = ckind
       ELSE /\ Offer(c, Message(c, 0, NOTIFICATION, FALSE))
            /\ ckind' = [ckind EXCEPT ![c] = "notify"]
            /\ UNCHANGED <<requests, counter, cnum, cexc>>
    /\ UNCHANGED <<apc, attachExc, error, scope, socket, outbox, rpc,
                   readerExc, disp, cell, cval, wire, peerClosed>>
    /\ calls' = calls /\ UNCHANGED <<srvVars, libVars>>

\* result.wait() of a caller resumes once the cell's event is set.
CallerWake(c) ==
    /\ cpc[c] = "wait"
    /\ cell[c].event
    /\ IF cell[c].error # None
       THEN /\ cpc' = [cpc EXCEPT ![c] = "raised"]
            /\ cexc' = [cexc EXCEPT ![c] = cell[c].error]
            /\ UNCHANGED <<requests, cval>>
       ELSE /\ cpc' = [cpc EXCEPT ![c] = "returned"]
            /\ cval' = [cval EXCEPT ![c] = cell[c].value]
            /\ requests' = IF ckind[c] = "send" THEN Release(c) ELSE requests
            /\ cexc' = cexc
    /\ UNCHANGED <<apc, attachExc, error, scope, socket, outbox, sendTasks,
                   counter, wpc, wmsg, rpc, readerExc, disp, cell, ckind, cnum,
                   wire, submitted, peerClosed>>
    /\ calls' = calls /\ UNCHANGED <<srvVars, libVars>>

\* ---------------------------------------------------------------- writer
\* The writer's receive(): the longest-parked sender's message, or park.
WriterNext(q) ==
    IF q # <<>>
    THEN LET t == TakeSender(q)
         IN  [pc |-> "write", msg |-> t.item, rest |-> t.rest]
    ELSE [pc |-> "receive", msg |-> NoMsg, rest |-> q]

WriterReceive ==
    /\ wpc = "start"
    /\ LET w == WriterNext(sendTasks)
       IN  /\ wpc' = w.pc /\ wmsg' = w.msg /\ sendTasks' = w.rest
           /\ cpc' = WakeCaller(cpc, w.msg.task)
           /\ disp' = WakeDisp(disp, w.msg.task)
    /\ UNCHANGED <<apc, attachExc, error, scope, socket, outbox, requests,
                   counter, rpc, readerExc, cell, ckind, cnum, cval, cexc,
                   wire, submitted, peerClosed>>
    /\ calls' = calls /\ UNCHANGED <<srvVars, libVars>>

\* transport.write returned: the frame is on the wire; then the next receive.
WriteOk ==
    /\ wpc = "write" /\ socket = "open"
    /\ wire' = Append(wire, OnWire(wmsg))
    /\ cell' = IF wmsg.needs THEN cell ELSE ResultSet(cell, wmsg.task, 0)
    /\ IF WriterCancelledNow
       THEN /\ wpc' = "done" /\ wmsg' = NoMsg
            /\ UNCHANGED <<sendTasks, cpc, disp>>
       ELSE LET w == WriterNext(sendTasks)
            IN  /\ wpc' = w.pc /\ wmsg' = w.msg /\ sendTasks' = w.rest
                /\ cpc' = WakeCaller(cpc, w.msg.task)
                /\ disp' = WakeDisp(disp, w.msg.task)
    /\ UNCHANGED <<apc, attachExc, error, scope, socket, outbox, requests,
                   counter, rpc, readerExc, ckind, cnum, cval, cexc,
                   submitted, peerClosed>>
    /\ calls' = calls /\ UNCHANGED <<srvVars, libVars>>

\* A writer that fails the cell of a failed write and goes on to the next
\* message, with the run scope left as it is.
WriteFailsGoesOn ==
    /\ wpc = "write" /\ socket = "open"
    /\ error' = SetError(WriteError)
    /\ cell' = ResultFail(cell, wmsg.task, SetError(WriteError))
    /\ wpc' = "start" /\ wmsg' = NoMsg
    /\ UNCHANGED <<apc, attachExc, scope, socket, outbox, sendTasks, requests,
                   counter, rpc, readerExc, disp, cpc, ckind, cnum, cval, cexc,
                   wire, submitted, peerClosed>>
    /\ calls' = calls /\ UNCHANGED <<srvVars, libVars>>

\* transport.write raised e: fail the cell, cancel the scope, leave the loop.
WriteFails ==
    /\ wpc = "write" /\ socket = "open"
    /\ error' = SetError(WriteError)
    /\ cell' = ResultFail(cell, wmsg.task, SetError(WriteError))
    /\ scope' = "cancelled"
    /\ disp' = CancelDisp(disp, cell')
    /\ sendTasks' = CancelSenders(sendTasks)
    /\ wpc' = "done" /\ wmsg' = NoMsg
    /\ UNCHANGED <<apc, attachExc, socket, outbox, requests, counter, rpc,
                   readerExc, cpc, ckind, cnum, cval, cexc, wire, submitted,
                   peerClosed>>
    /\ calls' = calls /\ UNCHANGED <<srvVars, libVars>>

\* The error the writer fails its cell with when cancelled inside a write.
CancelledWriteGeneric == Closed

CancelledWriteError == SetError(Closed)

WriteCancelled ==
    /\ wpc = "write" /\ WriterCancelledNow
    /\ error' = SetError(Closed)
    /\ cell' = ResultFail(cell, wmsg.task, CancelledWriteError)
    /\ wpc' = "done" /\ wmsg' = NoMsg
    /\ UNCHANGED <<apc, attachExc, scope, socket, outbox, sendTasks, requests,
                   counter, rpc, readerExc, disp, cpc, ckind, cnum, cval, cexc,
                   wire, submitted, peerClosed>>
    /\ calls' = calls /\ UNCHANGED <<srvVars, libVars>>

\* ---------------------------------------------------------------- reader
\* Frames the peer may deliver: well-formed ones, a REQUEST numbered by the
\* peer, a RESPONSE with any number.
InFrames ==
    {[flags |-> REQUEST, num |-> MaxNum], [flags |-> NOTIFICATION, num |-> 0]}
        \cup [flags : {RESPONSE}, num : Nums]

ReaderReady == rpc = "read" /\ socket = "open" /\ ~ReaderCancelledNow

\* The reader awaits the dispatch of the frame instead of spawning it.
ReaderAwaitsDispatch == "dispatch"

\* Where the reader is after n.start_soon(self._dispatch_message, msg):
\* back in transport.read.
ReaderAfterRead == "read"

\* transport.read returned a frame, one of at most limit: start its
\* dispatch task.
ReadFrameUpTo(f, limit) ==
    /\ ReaderReady
    /\ Len(disp) < limit
    /\ disp' = Append(disp, [flags |-> f.flags, num |-> f.num, pc |-> "start"])
    /\ rpc' = ReaderAfterRead
    /\ UNCHANGED <<apc, attachExc, error, scope, socket, outbox, sendTasks,
                   requests, counter, wpc, wmsg, readerExc, cell, cpc,
                   ckind, cnum, cval, cexc, wire, submitted, peerClosed>>
    /\ calls' = calls /\ UNCHANGED <<srvVars, libVars>>

ReadFrame(f) == ReadFrameUpTo(f, MaxFrames)

\* transport.read raised e: record it, cancel the scope, leave the loop.
ReaderStops(e) ==
    /\ error' = SetError(e)
    /\ scope' = "cancelled"
    /\ disp' = CancelDisp(disp, cell)
    /\ sendTasks' = CancelSenders(sendTasks)
    /\ wpc' = CancelWriter(wpc)
    /\ rpc' = "exiting"
    /\ UNCHANGED <<apc, attachExc, socket, outbox, requests, counter, wmsg,
                   readerExc, cell, cpc, ckind, cnum, cval, cexc, wire,
                   submitted>>
    /\ calls' = calls /\ UNCHANGED <<srvVars, libVars>>

ReadNoData == ReaderReady /\ peerClosed' = TRUE /\ ReaderStops(Closed)

ReadFails == ReaderReady /\ peerClosed' = peerClosed /\ ReaderStops(TransportError)

\* The socket was closed under the read by close().
ReadSocketClosed ==
    /\ rpc = "read" /\ socket = "closed"
    /\ peerClosed' = peerClosed /\ ReaderStops(Closed)

ReaderCancelled ==
    /\ rpc = "read" /\ ReaderCancelledNow
    /\ rpc' = "exiting"
    /\ UNCHANGED <<apc, attachExc, error, scope, socket, outbox, sendTasks,
                   requests, counter, wpc, wmsg, readerExc, disp, cell, cpc,
                   ckind, cnum, cval, cexc, wire, submitted, peerClosed>>
    /\ calls' = calls /\ UNCHANGED <<srvVars, libVars>>

\* The reader's nursery closes once every dispatch task has ended; an
\* exception leaving it cancels the writer.
ReaderExit ==
    /\ rpc = "exiting"
    /\ \A i \in DOMAIN disp : disp[i].pc = "done"
    /\ rpc' = "done"
    /\ wpc' = IF readerExc # None THEN CancelWriter(wpc) ELSE wpc
    /\ UNCHANGED <<apc, attachExc, error, scope, socket, outbox, sendTasks,
                   requests, counter, wmsg, readerExc, disp, cell, cpc, ckind,
                   cnum, cval, cexc, wire, submitted, peerClosed>>
    /\ calls' = calls /\ UNCHANGED <<srvVars, libVars>>

\* -------------------------------------------------------------- dispatch
\* The cell a RESPONSE frame is delivered to.
ResponseCellLowest(num) == requests[CHOOSE n \in DOMAIN requests :
                                      \A k \in DOMAIN requests : n <= k]

ResponseCell(num) == requests[num]

\* The exception is swallowed and the task just ends.
CrashIgnored(i, e, cl) ==
    /\ disp' = [disp EXCEPT ![i].pc = "done"]
    /\ UNCHANGED <<readerExc, sendTasks>>

\* Dispatch task i ends by raising e into the reader's nursery, which
\* cancels the other dispatch tasks and the reader.
Crash(i, e, cl) ==
    /\ readerExc' = IF readerExc = None THEN e ELSE readerExc
    /\ disp' = CancelDisp([disp EXCEPT ![i].pc = "done"], cl)
    /\ sendTasks' = CancelSenders(sendTasks)

\* What a frame's flags select in _dispatch_message.
FrameKind(flags) ==
    IF HasFlag(flags, REQUEST) THEN "request"
    ELSE IF HasFlag(flags, NOTIFICATION) THEN "notification"
    ELSE IF HasFlag(flags, RESPONSE) THEN "response"
    ELSE "unknown"

\* A RESPONSE frame (or one with no known flag) is dispatched.
DispatchResponse(i) ==
    /\ i \in DOMAIN disp /\ disp[i].pc = "start"
    /\ FrameKind(disp[i].flags) \in {"response", "unknown"}
    /\ IF FrameKind(disp[i].flags) = "unknown"
       THEN cell' = cell /\ Crash(i, RuntimeError, cell)
       ELSE IF disp[i].num \in DOMAIN requests
       THEN /\ cell' = ResultSet(cell, ResponseCell(disp[i].num), i)
            /\ disp' = [disp EXCEPT ![i].pc = "done"]
            /\ UNCHANGED <<readerExc, sendTasks>>
       ELSE cell' = cell /\ Crash(i, KeyError, cell)
    /\ UNCHANGED <<apc, attachExc, error, scope, socket, outbox, requests,
                   counter, wpc, wmsg, rpc, cpc, ckind, cnum, cval, cexc, wire,
                   submitted, peerClosed>>
    /\ calls' = calls /\ UNCHANGED <<srvVars, libVars>>

\* The RESPONSE a request's dispatch task offers: the request's num, flags
\* RESPONSE, no answer awaited.
ResponseNoNum(i) == Message(DispTask(i), 0, RESPONSE, FALSE)

ResponseTo(i) == Message(DispTask(i), disp[i].num, RESPONSE, FALSE)

\* The handler of a REQUEST or NOTIFICATION frame returned: a request's
\* answer is offered to the outbox as a RESPONSE with the request's num.
\* (A task in "start" is past read and before the end of its handler.)
HandlerReturns(i) ==
    /\ i \in DOMAIN disp /\ disp[i].pc = "start"
    /\ FrameKind(disp[i].flags) \in {"request", "notification"}
    /\ IF FrameKind(disp[i].flags) = "request"
       THEN LET m == ResponseTo(i)
            IN  /\ submitted' = Append(submitted, DispTask(i))
                /\ IF wpc = "receive"
                   THEN /\ wpc' = "write" /\ wmsg' = m
                        /\ sendTasks' = sendTasks
                        /\ disp' = [disp EXCEPT ![i].pc = "wait"]
                   ELSE /\ wpc' = wpc /\ wmsg' = wmsg
                        /\ sendTasks' = Append(sendTasks, m)
                        /\ disp' = [disp EXCEPT ![i].pc = "parked"]
       ELSE /\ disp' = [disp EXCEPT ![i].pc = "done"]
            /\ UNCHANGED <<submitted, wpc, wmsg, sendTasks>>
    /\ UNCHANGED <<apc, attachExc, error, scope, socket, outbox, requests,
                   counter, rpc, readerExc, cell, cpc, ckind, cnum, cval, cexc,
                   wire, peerClosed>>
    /\ calls' = calls /\ UNCHANGED <<srvVars, libVars>>

\* The handler of a REQUEST or NOTIFICATION frame raised.
HandlerRaises(i) ==
    /\ i \in DOMAIN disp /\ disp[i].pc = "start"
    /\ FrameKind(disp[i].flags) \in {"request", "notification"}
    /\ Crash(i, HandlerError, cell)
    /\ UNCHANGED <<apc, attachExc, error, scope, socket, outbox, requests,
                   counter, wpc, wmsg, rpc, cell, cpc, ckind, cnum, cval, cexc,
                   wire, submitted, peerClosed>>
    /\ calls' = calls /\ UNCHANGED <<srvVars, libVars>>

\* result.wait() of a dispatch task that sent a RESPONSE.
DispatchWake(i) ==
    /\ i \in DOMAIN disp /\ disp[i].pc = "wait"
    /\ cell[DispTask(i)].event
    /\ IF cell[DispTask(i)].error # None
       THEN Crash(i, cell[DispTask(i)].error, cell)
       ELSE /\ disp' = [disp EXCEPT ![i].pc = "done"]
            /\ UNCHANGED <<readerExc, sendTasks>>
    /\ UNCHANGED <<apc, attachExc, error, scope, socket, outbox, requests,
                   counter, wpc, wmsg, rpc, cell, cpc, ckind, cnum, cval, cexc,
                   wire, submitted, peerClosed>>
    /\ calls' = calls /\ UNCHANGED <<srvVars, libVars>>

\* -------------------------------------------------------------- shutdown
\* The nursery would close as soon as the reader has ended.
NurseryClosedAfterReader == rpc = "done"

\* attach's nursery closes once the reader and the writer have both ended.
NurseryClosed == rpc = "done" /\ wpc = "done"

\* The nursery has closed; _shutdown up to its first suspension point.
\* receive_nowait() takes a parked sender's message and resumes the sender;
\* awaiting the tuple it returns raises TypeError.
Shutdown ==
    /\ apc = "running" /\ NurseryClosed
    /\ error' = SetError(Closed)
    /\ IF sendTasks # <<>>
       THEN LET t == TakeSender(sendTasks)
            IN  /\ sendTasks' = t.rest
                /\ cpc' = WakeCaller(cpc, t.item.task)
                /\ apc' = "raised" /\ attachExc' = TypeError
                /\ outbox' = outbox
       ELSE /\ outbox' = "closed"
            /\ apc' = "closing" /\ attachExc' = readerExc
            /\ UNCHANGED <<sendTasks, cpc>>
    /\ UNCHANGED <<scope, socket, requests, counter, wpc, wmsg, rpc, readerExc,
                   disp, cell, ckind, cnum, cval, cexc, wire, submitted,
                   peerClosed>>
    /\ calls' = calls /\ UNCHANGED <<srvVars, libVars>>

\* _shutdown's close(), then the end of attach.
ShutdownClose ==
    /\ apc = "closing"
    /\ socket' = "closed" /\ scope' = "cancelled"
    /\ IF attachExc # None
       THEN apc' = "raised" /\ attachExc' = attachExc
       ELSE IF error # None /\ error # Closed
       THEN apc' = "raised" /\ attachExc' = error
       ELSE apc' = "returned" /\ attachExc' = attachExc
    /\ UNCHANGED <<error, outbox, sendTasks, requests, counter, wpc, wmsg, rpc,
                   readerExc, disp, cell, cpc, ckind, cnum, cval, cexc, wire,
                   submitted, peerClosed>>
    /\ calls' = calls /\ UNCHANGED <<srvVars, libVars>>

\* ----------------------------------------------------------------- close
\* close() releases the socket, so that a repeated call finds none.
CloseSocketForget(s) == IF s = "open" THEN "closed" ELSE "none"

\* self._socket.close() when there is a socket; closing a closed socket
\* does nothing.
CloseSocket(s) == IF s # "none" THEN "closed" ELSE s

\* What close() assigns, as a function of the connection's state st:
\* the socket is closed, and with a scope the scope is cancelled, which
\* ends the tasks parked inside it.
CloseOf(st) ==
    [socket |-> CloseSocket(st.socket),
     scope |-> IF st.scope # "none" THEN "cancelled" ELSE st.scope,
     disp |-> IF st.scope # "none" THEN CancelDisp(st.disp, cell) ELSE st.disp,
     sendTasks |-> IF st.scope # "none" THEN CancelSenders(st.sendTasks)
                   ELSE st.sendTasks,
     wpc |-> IF st.scope # "none" THEN CancelWriter(st.wpc) ELSE st.wpc]

\* The part of the state close() may touch.
CloseView ==
    [socket |-> socket, scope |-> scope, disp |-> disp,
     sendTasks |-> sendTasks, wpc |-> wpc]

Close ==
    /\ LET r == CloseOf(CloseView)
       IN  /\ socket' = r.socket /\ scope' = r.scope /\ disp' = r.disp
           /\ sendTasks' = r.sendTasks /\ wpc' = r.wpc
    /\ UNCHANGED <<apc, attachExc, error, outbox, requests, counter, wmsg, rpc,
                   readerExc, cell, cpc, ckind, cnum, cval, cexc, wire,
                   submitted, peerClosed>>
    /\ calls' = calls /\ UNCHANGED <<srvVars, libVars>>

Next ==
    \/ Attach
    \/ \E c \in Callers : Send(c)
    \/ \E c \in Callers : Notify(c)
    \/ \E c \in Callers : CallerWake(c)
    \/ WriterReceive
    \/ WriteOk
    \/ WriteFails
    \/ WriteCancelled
    \/ \E f \in InFrames : ReadFrame(f)
    \/ ReadNoData
    \/ ReadFails
    \/ ReadSocketClosed
    \/ ReaderCancelled
    \/ ReaderExit
    \/ \E i \in 1..MaxFrames : DispatchResponse(i)
    \/ \E i \in 1..MaxFrames : HandlerReturns(i)
    \/ \E i \in 1..MaxFrames : HandlerRaises(i)
    \/ \E i \in 1..MaxFrames : DispatchWake(i)
    \/ Shutdown
    \/ ShutdownClose
    \/ Close

Spec == Init /\ [][Next]_vars

\* ------------------------------------------- attach and connect, again
\* A second call of attach or connect on the connection, made once the
\* first attach is past its guard.  attach: the guard, then either
\* RuntimeError or the assignments and the run loop.  connect: a new socket
\* is created and connected first, which the peer may refuse.  The first
\* run is seen with its callers, its writer and the end of its reader; the
\* peer sends no frame.
ConnectError == "ConnectionRefusedError"

\* A guard that lets a connection run again after its run loop has ended.
AlreadyRunningNow == scope = "active"

AlreadyRunning == scope # "none"

AttachOn(via, sock) ==
    IF AlreadyRunning
    THEN /\ again' = [via |-> via, exc |-> RuntimeError, sock |-> sock]
         /\ UNCHANGED connVars
    ELSE /\ again' = [via |-> via, exc |-> None, sock |-> sock]
         /\ apc' = "running"
         /\ socket' = "open" /\ outbox' = "open" /\ scope' = "active"
         /\ rpc' = "read" /\ wpc' = "start"
         /\ UNCHANGED <<attachExc, error, sendTasks, requests, counter, wmsg,
                        readerExc, disp, cell, cpc, ckind, cnum, cval, cexc,
                        wire, submitted, peerClosed, calls>>

AttachAgain ==
    /\ apc # "init" /\ again = NoAgain
    /\ AttachOn("attach", "none")
    /\ UNCHANGED <<srvVars, fd, codec>>

ConnectAgain(connected) ==
    /\ apc # "init" /\ again = NoAgain
    /\ IF connected
       THEN AttachOn("connect", "open")
       ELSE /\ again' = [via |-> "connect", exc |-> ConnectError,
                         sock |-> "unconnected"]
            /\ UNCHANGED connVars
    /\ UNCHANGED <<srvVars, fd, codec>>

NextAgain ==
    \/ Attach
    \/ \E c \in Callers : Send(c)
    \/ \E c \in Callers : Notify(c)
    \/ \E c \in Callers : CallerWake(c)
    \/ WriterReceive
    \/ WriteOk
    \/ WriteFails
    \/ WriteCancelled
    \/ ReadNoData
    \/ ReadFails
    \/ ReadSocketClosed
    \/ ReaderCancelled
    \/ ReaderExit
    \/ Shutdown
    \/ ShutdownClose
    \/ Close
    \/ AttachAgain
    \/ \E connected \in BOOLEAN : ConnectAgain(connected)

SpecAgain == Init /\ [][NextAgain]_vars

\* ------------------------------------------------- the request numbers
\* The life of send seen from _requests and _counter alone: a send
\* allocates its number, later returns (and deletes its entry) or raises
\* (and leaves it), and the caller may call send again.
AllocSend(c) ==
    /\ cpc[c] = "idle" /\ calls < MaxCalls
    /\ Allocate(c)
    /\ calls' = calls + 1
    /\ cpc' = [cpc EXCEPT ![c] = "wait"]
    /\ ckind' = [ckind EXCEPT ![c] = "send"]
    /\ UNCHANGED <<apc, attachExc, error, scope, socket, outbox, sendTasks,
                   wpc, wmsg, rpc, readerExc, disp, cell, cval, cexc, wire,
                   submitted, peerClosed>>
    /\ UNCHANGED <<srvVars, libVars>>

SendReturns(c) ==
    /\ cpc[c] = "wait"
    /\ requests' = Release(c)
    /\ cpc' = [cpc EXCEPT ![c] = "returned"]
    /\ UNCHANGED <<apc, attachExc, error, scope, socket, outbox, sendTasks,
                   counter, wpc, wmsg, rpc, readerExc, disp, cell, ckind, cnum,
                   cval, cexc, wire, submitted, peerClosed, calls>>
    /\ UNCHANGED <<srvVars, libVars>>

SendRaises(c) ==
    /\ cpc[c] = "wait"
    /\ cpc' = [cpc EXCEPT ![c] = "raised"]
    /\ UNCHANGED <<apc, attachExc, error, scope, socket, outbox, sendTasks,
                   requests, counter, wpc, wmsg, rpc, readerExc, disp, cell,
                   ckind, cnum, cval, cexc, wire, submitted, peerClosed, calls>>
    /\ UNCHANGED <<srvVars, libVars>>

CallAgain(c) ==
    /\ cpc[c] \in {"returned", "raised"}
    /\ cpc' = [cpc EXCEPT ![c] = "idle"]
    /\ UNCHANGED <<apc, attachExc, error, scope, socket, outbox, sendTasks,
                   requests, counter, wpc, wmsg, rpc, readerExc, disp, cell,
                   ckind, cnum, cval, cexc, wire, submitted, peerClosed, calls>>
    /\ UNCHANGED <<srvVars, libVars>>

NextAlloc ==
    \/ \E c \in Callers : AllocSend(c)
    \/ \E c \in Callers : SendReturns(c)
    \/ \E c \in Callers : SendRaises(c)
    \/ \E c \in Callers : CallAgain(c)

SpecAlloc == Init /\ [][NextAlloc]_vars

\* ------------------------------------------------ cancelled send, notify
\* The task of caller c is cancelled from outside while it is suspended in
\* _outbox_sender.send or in result.wait(): Cancelled leaves send before
\* its del self._requests[num]; a parked message leaves the outbox.
CancelSend(c) ==
    /\ \/ cpc[c] = "parked"
       \/ cpc[c] = "wait" /\ ~cell[c].event
    /\ cpc' = [cpc EXCEPT ![c] = "cancelled"]
    /\ sendTasks' = SelectSeq(sendTasks, LAMBDA m: m.task # c)
    /\ UNCHANGED <<apc, attachExc, error, scope, socket, outbox, requests,
                   counter, wpc, wmsg, rpc, readerExc, disp, cell, ckind, cnum,
                   cval, cexc, wire, submitted, peerClosed>>
    /\ calls' = calls /\ UNCHANGED <<srvVars, libVars>>

NextCancel ==
    \/ Next
    \/ \E c \in Callers : CancelSend(c)

SpecCancel == Init /\ [][NextCancel]_vars

\* ------------------------------------------------- the nested handshake
\* The quit handshake of app.py: the peer sends a REQUEST; its handler
\* (dispatch task 1) calls send on the same connection, as caller 1, and
\* returns after that send returned.  The peer answers the nested REQUEST
\* once it is on the wire and may send NOTIFICATION frames meanwhile; the
\* other callers notify.  Nothing fails and nobody closes.
NestedHandler == 1
NestedCaller == 1

PeerRequest ==
    /\ disp = <<>>
    /\ ReadFrameUpTo([flags |-> REQUEST, num |-> MaxNum], NestedFrames)

Replied == \E i \in DOMAIN disp :
               FrameKind(disp[i].flags) = "response" /\ disp[i].num = cnum[NestedCaller]

PeerReplies ==
    /\ disp # <<>> /\ ~Replied
    /\ \E k \in DOMAIN wire :
           wire[k].task = NestedCaller /\ wire[k].flags = REQUEST
    /\ ReadFrameUpTo([flags |-> RESPONSE, num |-> cnum[NestedCaller]], NestedFrames)

\* A slot is kept for the peer's answer.
PeerNotifies ==
    /\ disp # <<>>
    /\ Replied \/ Len(disp) < NestedFrames - 1
    /\ ReadFrameUpTo([flags |-> NOTIFICATION, num |-> 0], NestedFrames)

NestedSend ==
    /\ NestedHandler \in DOMAIN disp /\ disp[NestedHandler].pc = "start"
    /\ Send(NestedCaller)

NestedReturn ==
    /\ cpc[NestedCaller] = "returned"
    /\ HandlerReturns(NestedHandler)

OtherNotify(c) == c # NestedCaller /\ Notify(c)

NotificationHandled(i) == i # NestedHandler /\ HandlerReturns(i)

NextNested ==
    \/ Attach
    \/ PeerRequest
    \/ PeerReplies
    \/ PeerNotifies
    \/ NestedSend
    \/ NestedReturn
    \/ \E c \in Callers : OtherNotify(c)
    \/ \E c \in Callers : CallerWake(c)
    \/ WriterReceive
    \/ WriteOk
    \/ \E i \in 1..NestedFrames : DispatchResponse(i)
    \/ \E i \in 1..NestedFrames : NotificationHandled(i)
    \/ \E i \in 1..NestedFrames : DispatchWake(i)

\* trio runs every task that can run; the transport completes a write; the
\* peer, running the same code, answers a REQUEST it has received.
FairNested ==
    /\ WF_vars(Attach) /\ WF_vars(PeerRequest) /\ WF_vars(PeerReplies)
    /\ WF_vars(NestedSend) /\ WF_vars(NestedReturn)
    /\ WF_vars(WriterReceive) /\ WF_vars(WriteOk)
    /\ \A c \in Callers : WF_vars(CallerWake(c))
    /\ \A i \in 1..NestedFrames :
           WF_vars(DispatchResponse(i)) /\ WF_vars(DispatchWake(i))

SpecNested == Init /\ [][NextNested]_vars /\ FairNested

\* ------------------------------------------------- the numbers on the wire
\* A connection in use for a long time: callers send and notify, the peer
\* answers each REQUEST it has received once, and a caller whose call
\* returned calls again, with a new Result, MaxCalls calls in all.  Nothing
\* fails and nobody closes, so the counter runs to its limit and wraps.
WrapFrames == MaxCalls

Answered(c) ==
    \/ cell[c].event
    \/ \E i \in DOMAIN disp :
           disp[i].pc = "start" /\ FrameKind(disp[i].flags) = "response"
               /\ disp[i].num = cnum[c]

PeerAnswers ==
    \E c \in Callers :
        /\ ckind[c] = "send" /\ cpc[c] = "wait" /\ wmsg.task # c
        /\ ~Answered(c)
        /\ ReadFrameUpTo([flags |-> RESPONSE, num |-> cnum[c]], WrapFrames)

SendAgain(c) ==
    /\ cpc[c] = "returned" /\ NumCallers + calls < MaxCalls
    /\ calls' = calls + 1
    /\ cpc' = [cpc EXCEPT ![c] = "idle"]
    /\ cell' = [cell EXCEPT ![c] = NewResult]
    /\ ckind' = [ckind EXCEPT ![c] = "none"]
    /\ cnum' = [cnum EXCEPT ![c] = 0]
    /\ cval' = [cval EXCEPT ![c] = 0]
    /\ UNCHANGED <<apc, attachExc, error, scope, socket, outbox, sendTasks,
                   requests, counter, wpc, wmsg, rpc, readerExc, disp, cexc,
                   wire, submitted, peerClosed>>
    /\ UNCHANGED <<srvVars, libVars>>

NextWrap ==
    \/ Attach
    \/ \E c \in Callers : Send(c)
    \/ \E c \in Callers : Notify(c)
    \/ \E c \in Callers : CallerWake(c)
    \/ \E c \in Callers : SendAgain(c)
    \/ WriterReceive
    \/ WriteOk
    \/ PeerAnswers
    \/ \E i \in 1..WrapFrames : DispatchResponse(i)

SpecWrap == Init /\ [][NextWrap]_vars

\* ========================================================== the listener
\* Server of src/ipc/server.py.  Each accepted socket gets an _accept task
\* in serve's nursery; the connection inside it is seen from outside: its
\* attach returns, raises, or is cancelled with the listener.
\*   conn[k].pc   "spawned"  started with start_soon, not yet run
\*                "entered"  in the map, at attach's first checkpoint
\*                "running"  inside attach's run loop
\*                "handler"  attach raised, the error handler is suspended
\*                "done"     _accept has ended
\*                "raised"   _accept has ended, the handler's exception left it
\*   conn[k].sock the connection's socket: "none", "open", "closed"
\*   conn[k].num  _accept's local num while the task lives (0: none)
\*   conn[k].exc  what attach ended with; harg what the handler was given
\*   conn[k].cancelled  attach was cancelled with the listener
\*   conn[k].peer  the address accept() returned with the socket
\*   conn[k].arg   the address argument _accept was started with
\*   conn[k].address  Connection.address (None until attach assigns it)
\* Peer addresses: an unnamed client's is empty.
Unnamed == ""
PeerAddresses == {Unnamed, "@client"}
\* serve starts _accept with the type bytes as the address.
BytesType == "<class 'bytes'>"

NewConn == [pc |-> "spawned", num |-> 0, sock |-> "none", exc |-> None,
            handled |-> 0, harg |-> None, cancelled |-> FALSE,
            peer |-> Unnamed, arg |-> BytesType, address |-> None]

\* Exceptions attach raises by itself (see Shutdown, ShutdownClose): the
\* sticky error or a handler's exception, and the cleanup's TypeError.
ConnErrors == {TransportError, TypeError}

\* serve's nursery is cancelled by close() or by a child's exception.
SrvCancelled == srvScope = "cancelled" \/ nurseryExc # <<>>

\* _accept: except Exception. Cancelled is a BaseException.
RoutedAll(e) == TRUE

Routed(e) == e # Cancelled

\* _accept's loop: the next number that is no key of connections.
AcceptNumNoCheck(v, conns) == CounterNext(v)

AcceptNum(v, conns) == AllocLoop(v, conns)

\* finally: del self.connections[num].
Forget(k) == [n \in DOMAIN connections \ {conn[k].num} |-> connections[n]]

\* serve up to its accept loop.
Serve ==
    /\ servePc = "init"
    /\ servePc' = "accepting"
    /\ srvScope' = "active" /\ srvSocket' = "open"
    /\ UNCHANGED <<serveExc, connections, srvCounter, conn, nurseryExc>>
    /\ UNCHANGED <<connVars, libVars>>

\* accept() returned a socket and the peer's address a: start the socket's
\* _accept task.
AcceptFrom(a) ==
    /\ servePc = "accepting" /\ srvSocket = "open" /\ ~SrvCancelled
    /\ Len(conn) < MaxConns
    /\ conn' = Append(conn, [NewConn EXCEPT !.peer = a])
    /\ UNCHANGED <<servePc, serveExc, srvScope, srvSocket, connections,
                   srvCounter, nurseryExc>>
    /\ UNCHANGED <<connVars, libVars>>

\* An unnamed client is accepted.
AcceptSocket == AcceptFrom(Unnamed)

\* accept() raised ClosedResourceError (break) or was cancelled.
AcceptOver == srvSocket = "closed" \/ SrvCancelled
AcceptEnds ==
    /\ servePc = "accepting" /\ AcceptOver
    /\ servePc' = "draining"
    /\ UNCHANGED <<serveExc, srvScope, srvSocket, connections, srvCounter,
                   conn, nurseryExc>>
    /\ UNCHANGED <<connVars, libVars>>

\* _accept up to attach's first checkpoint.  (With every number in use
\* the loop would not end: no step.)
AcceptEnter(k) ==
    /\ k \in DOMAIN conn /\ conn[k].pc = "spawned"
    /\ \E n \in Nums : n \notin DOMAIN connections
    /\ LET a == AcceptNum(srvCounter, connections)
       IN  /\ srvCounter' = a.value
           /\ connections' = [n \in DOMAIN connections \cup {a.ret} |->
                                IF n = a.ret THEN k ELSE connections[n]]
           /\ conn' = [conn EXCEPT ![k].pc = "entered", ![k].num = a.ret]
    /\ UNCHANGED <<servePc, serveExc, srvScope, srvSocket, nurseryExc>>
    /\ UNCHANGED <<connVars, libVars>>

\* What the error handler does when called: it returns or raises before
\* it ever suspends, or it suspends.
HandlerOutcomes == {"returns", "raises", "suspends"}

\* attach of connection k ended with e (None: it returned), its socket in
\* state sk: the rest of _accept.  An Exception goes to the error handler;
\* a handler that suspends in a cancelled nursery ends there by Cancelled.
\* At the end, finally deletes the map's entry.
Finish(k, e, sk, byCancel, h) ==
    LET routed == e # None /\ Routed(e)
        suspended == routed /\ h = "suspends" /\ ~SrvCancelled
        c1 == [conn[k] EXCEPT !.exc = e, !.sock = sk, !.cancelled = byCancel,
                              !.handled = IF routed THEN @ + 1 ELSE @,
                              !.harg = IF routed THEN e ELSE @]
    IN  /\ conn' = [conn EXCEPT ![k] =
                      IF suspended THEN [c1 EXCEPT !.pc = "handler"]
                      ELSE IF routed /\ h = "raises"
                      THEN [c1 EXCEPT !.pc = "raised", !.num = 0]
                      ELSE [c1 EXCEPT !.pc = "done", !.num = 0]]
        /\ connections' = IF suspended THEN connections ELSE Forget(k)
        /\ nurseryExc' = IF routed /\ h = "raises"
                         THEN Append(nurseryExc, HandlerFailure)
                         ELSE nurseryExc

\* attach's first checkpoint: in a cancelled nursery it raises Cancelled
\* before the socket is attached.
AttachBegin(k, h) ==
    /\ k \in DOMAIN conn /\ conn[k].pc = "entered"
    /\ IF SrvCancelled
       THEN Finish(k, Cancelled, conn[k].sock, TRUE, h)
       ELSE /\ conn' = [conn EXCEPT ![k].pc = "running", ![k].sock = "open",
                                    ![k].address = conn[k].arg]
            /\ UNCHANGED <<connections, nurseryExc>>
    /\ UNCHANGED <<servePc, serveExc, srvScope, srvSocket, srvCounter>>
    /\ UNCHANGED <<connVars, libVars>>

\* attach returned: the peer closed and the cleanup closed the socket.
ConnReturns(k) ==
    /\ k \in DOMAIN conn /\ conn[k].pc = "running"
    /\ Finish(k, None, "closed", FALSE, "returns")
    /\ UNCHANGED <<servePc, serveExc, srvScope, srvSocket, srvCounter>>
    /\ UNCHANGED <<connVars, libVars>>

\* attach raised e by itself; the cleanup that raises TypeError does not
\* reach its close().
ConnRaises(k, e, h) ==
    /\ k \in DOMAIN conn /\ conn[k].pc = "running"
    /\ Finish(k, e, IF e = TypeError THEN conn[k].sock ELSE "closed", FALSE, h)
    /\ UNCHANGED <<servePc, serveExc, srvScope, srvSocket, srvCounter>>
    /\ UNCHANGED <<connVars, libVars>>

\* attach was cancelled with the listener: its shielded cleanup runs, and
\* Cancelled goes on; with a sender parked on the outbox the cleanup raises
\* TypeError in its place.
ConnCancelled(k, parked, h) ==
    /\ k \in DOMAIN conn /\ conn[k].pc = "running" /\ SrvCancelled
    /\ IF parked
       THEN Finish(k, TypeError, conn[k].sock, TRUE, h)
       ELSE Finish(k, Cancelled, "closed", TRUE, h)
    /\ UNCHANGED <<servePc, serveExc, srvScope, srvSocket, srvCounter>>
    /\ UNCHANGED <<connVars, libVars>>

\* The suspended error handler returns or raises.
HandlerResumes(k, h) ==
    /\ k \in DOMAIN conn /\ conn[k].pc = "handler" /\ ~SrvCancelled
    /\ conn' = [conn EXCEPT ![k].pc = IF h = "raises" THEN "raised" ELSE "done",
                            ![k].num = 0]
    /\ connections' = Forget(k)
    /\ nurseryExc' = IF h = "raises" THEN Append(nurseryExc, HandlerFailure)
                     ELSE nurseryExc
    /\ UNCHANGED <<servePc, serveExc, srvScope, srvSocket, srvCounter>>
    /\ UNCHANGED <<connVars, libVars>>

\* The suspended error handler is cancelled with the listener.
HandlerCancelled(k) ==
    /\ k \in DOMAIN conn /\ conn[k].pc = "handler" /\ SrvCancelled
    /\ conn' = [conn EXCEPT ![k].pc = "done", ![k].num = 0]
    /\ connections' = Forget(k)
    /\ UNCHANGED <<servePc, serveExc, srvScope, srvSocket, srvCounter,
                   nurseryExc>>
    /\ UNCHANGED <<connVars, libVars>>

\* serve's nursery closes once every _accept task has ended; what its
\* children raised leaves serve.
TaskEnded(k) == conn[k].pc \in {"done", "raised"}
ServeExit ==
    /\ servePc = "draining"
    /\ \A k \in DOMAIN conn : TaskEnded(k)
    /\ servePc' = IF nurseryExc = <<>> THEN "returned" ELSE "raised"
    /\ serveExc' = IF nurseryExc = <<>> THEN None
                   ELSE IF Len(nurseryExc) = 1 THEN nurseryExc[1]
                   ELSE MultiError
    /\ srvScope' = IF srvScope = "active" THEN "exited" ELSE srvScope
    /\ UNCHANGED <<srvSocket, connections, srvCounter, conn, nurseryExc>>
    /\ UNCHANGED <<connVars, libVars>>

\* Server.close(): close the listening socket, close() every connection of
\* the map, cancel the scope.
InMap(k) == \E n \in DOMAIN connections : connections[n] = k
ServerClose ==
    /\ srvSocket' = CloseSocket(srvSocket)
    /\ conn' = [k \in DOMAIN conn |->
                  IF InMap(k) THEN [conn[k] EXCEPT !.sock = CloseSocket(@)]
                  ELSE conn[k]]
    /\ srvScope' = IF srvScope = "active" THEN "cancelled" ELSE srvScope
    /\ UNCHANGED <<servePc, serveExc, connections, srvCounter, nurseryExc>>
    /\ UNCHANGED <<connVars, libVars>>

\* The steps of the listener other than accepting a socket.
ServerSteps ==
    \/ Serve
    \/ AcceptEnds
    \/ \E k \in 1..MaxConns : AcceptEnter(k)
    \/ \E k \in 1..MaxConns, h \in HandlerOutcomes : AttachBegin(k, h)
    \/ \E k \in 1..MaxConns : ConnReturns(k)
    \/ \E k \in 1..MaxConns, e \in ConnErrors, h \in HandlerOutcomes :
           ConnRaises(k, e, h)
    \/ \E k \in 1..MaxConns, parked \in BOOLEAN, h \in HandlerOutcomes :
           ConnCancelled(k, parked, h)
    \/ \E k \in 1..MaxConns, h \in {"returns", "raises"} : HandlerResumes(k, h)
    \/ \E k \in 1..MaxConns : HandlerCancelled(k)
    \/ ServeExit
    \/ ServerClose

NextServer == AcceptSocket \/ ServerSteps

SpecServer == Init /\ [][NextServer]_vars

\* The listener with clients of every address.
NextAddress == (\E a \in PeerAddresses : AcceptFrom(a)) \/ ServerSteps

SpecAddress == Init /\ [][NextAddress]_vars

\* ------------------------------------------------- the Fd handle in use
FdNew(v, dup) ==
    /\ fd.pc = "none"
    /\ fd' = FdInit(v, dup)
    /\ UNCHANGED <<connVars, srvVars, codec, again>>

FdGet ==
    /\ fd.pc = "alive"
    /\ fd' = FdGetOf(fd)
    /\ UNCHANGED <<connVars, srvVars, codec, again>>

\* take(); the descriptor table has room for a duplicate.
FdTake ==
    /\ fd.pc = "alive" /\ fd.open # Descriptors
    /\ fd' = FdTakeOf(fd)
    /\ UNCHANGED <<connVars, srvVars, codec, again>>

FdClose ==
    /\ fd.pc = "alive"
    /\ fd' = FdCloseOf(fd)
    /\ UNCHANGED <<connVars, srvVars, codec, again>>

\* __del__: close(), and the handle is gone.
FdDel ==
    /\ fd.pc = "alive"
    /\ fd' = [FdCloseOf(fd) EXCEPT !.pc = "destroyed", !.op = "del"]
    /\ UNCHANGED <<connVars, srvVars, codec, again>>

\* A user of the handle closes a descriptor that is theirs to close.
HolderCloses(d) ==
    /\ fd.pc = "alive" /\ d \in fd.held /\ d \in fd.open
    /\ fd' = [fd EXCEPT !.open = @ \ {d}, !.held = @ \ {d},
                        !.op = "other", !.ret = -1, !.exc = None]
    /\ UNCHANGED <<connVars, srvVars, codec, again>>

NextFd ==
    \/ \E v \in Descriptors, dup \in BOOLEAN : FdNew(v, dup)
    \/ FdGet
    \/ FdTake
    \/ FdClose
    \/ FdDel
    \/ \E d \in Descriptors : HolderCloses(d)

SpecFd == Init /\ [][NextFd]_vars

\* ------------------------------------------------------ the codec in use
\* The values serialized: leaves, flat lists and dicts, and one more level
\* of nesting.  A dict's keys are hashable and differ from one another; no
\* Fd handle occurs twice.
Atoms == {VNone, VBool(0), VBool(1), VInt(0), VInt(1), VInt(-1), VInt(300),
          VStr(<<>>), VStr(<<97, 233>>), VBytes(<<>>), VBytes(<<0, 255>>),
          VByteArray(<<1>>)}
Handles == 1..MaxHandles
Leaves == Atoms \cup {VFd(h) : h \in Handles}
\* What the lists and dicts are made of.
Items == {VNone, VBool(1), VInt(-1), VStr(<<97, 233>>)} \cup {VFd(h) : h \in Handles}
Keys == {VNone, VBool(1), VInt(1), VStr(<<97, 233>>), VBytes(<<0, 255>>),
         VTuple(<<VInt(1)>>)}
EntryValues == {VNone, VFd(1)}

SeqsUpTo(S, n) == UNION {[1..m -> S] : m \in 0..n}
\* The dict of the entries es, a sequence of <<key, value>> pairs.
DictOf(es) == VDict([j \in 1..(2 * Len(es)) |-> es[(j + 1) \div 2][2 - (j % 2)]])
DistinctKeys(es) ==
    \A i, j \in DOMAIN es : i # j => ~KeyEq(es[i][1], es[j][1])
Lists(S, n) == {VList(q) : q \in SeqsUpTo(S, n)}
Dicts(n) == {DictOf(es) : es \in {q \in SeqsUpTo(Keys \X EntryValues, n) :
                                      DistinctKeys(q)}}
Flat(n) == Lists(Items, n) \cup Dicts(n)
Nested == {VList(<<x>>) : x \in Flat(1)}
            \cup {VDict(<<k, x>>) : k \in {VStr(<<97, 233>>), VTuple(<<VInt(1)>>)},
                                    x \in Flat(1)}

RECURSIVE FdsOf(_)
RECURSIVE FdsOfAll(_)
FdsOfAll(vs) == IF vs = <<>> THEN <<>> ELSE FdsOf(Head(vs)) \o FdsOfAll(Tail(vs))
\* The Fd handles of a value, in the order serialize meets them.
FdsOf(v) == IF v.t = "fd" THEN <<v.n>> ELSE FdsOfAll(v.s)
NoSharedFd(v) == \A i, j \in DOMAIN FdsOf(v) : i # j => FdsOf(v)[i] # FdsOf(v)[j]

NativeValues == {v \in Leaves \cup Flat(MaxItems) \cup Nested : NoSharedFd(v)}

Encode(v) ==
    /\ codec.pc = "idle"
    /\ LET r == serialize(v)
       IN  codec' = [NoCodec EXCEPT !.pc = "encoded", !.value = v,
                                    !.eerr = r.err,
                                    !.data = IF r.err = None THEN r.data ELSE <<>>,
                                    !.fds = IF r.err = None THEN r.fds ELSE <<>>]
    /\ UNCHANGED <<connVars, srvVars, fd, again>>

Intact == codec.pc = "encoded" /\ codec.eerr = None /\ codec.how = "valid"

\* The data is cut after its first n bytes.
Truncate(n) ==
    /\ Intact /\ n < Len(codec.data)
    /\ codec' = [codec EXCEPT !.how = "truncated", !.data = SubSeq(@, 1, n)]
    /\ UNCHANGED <<connVars, srvVars, fd, again>>

\* Bytes follow the value.
Junk == {<<0>>, int32_to_bytes(MARKER_NONE)}
AppendJunk(j) ==
    /\ Intact
    /\ codec' = [codec EXCEPT !.how = "trailing", !.data = @ \o j]
    /\ UNCHANGED <<connVars, srvVars, fd, again>>

\* Where a value's marker stands in the data of v (-1: v has no such
\* place): the top-level value's, a list's first item's, a dict's first
\* key's and first value's.
MarkerOffset(v, at) ==
    IF at = "top" THEN 0
    ELSE IF at = "item" /\ v.t \in {"list", "tuple"} /\ v.s # <<>> THEN 4
    ELSE IF at = "key" /\ v.t = "dict" /\ v.s # <<>> THEN 4
    ELSE IF at = "value" /\ v.t = "dict" /\ v.s # <<>>
    THEN 4 + Len(serialize(v.s[1]).data)
    ELSE -1
\* A marker that closes nothing where it stands, or that is no marker.
MARKER_UNKNOWN == 12
Misplaced(at) ==
    {MARKER_UNKNOWN}
    \cup (IF at # "item" THEN {MARKER_ARRAY_END} ELSE {})
    \cup (IF at # "key" THEN {MARKER_DICT_END} ELSE {})

PutMarker(at, m) ==
    /\ Intact /\ m \in Misplaced(at) /\ MarkerOffset(codec.value, at) >= 0
    /\ LET off == MarkerOffset(codec.value, at)
       IN  codec' = [codec EXCEPT !.how = "marker",
                                  !.data = Slice(@, 0, off) \o int32_to_bytes(m)
                                             \o SliceFrom(@, off + 4)]
    /\ UNCHANGED <<connVars, srvVars, fd, again>>

\* The FD list arrives without its last entry.
DropFd ==
    /\ Intact /\ codec.fds # <<>>
    /\ codec' = [codec EXCEPT !.how = "fdmissing",
                              !.fds = SubSeq(@, 1, Len(@) - 1)]
    /\ UNCHANGED <<connVars, srvVars, fd, again>>

Decode ==
    /\ codec.pc = "encoded" /\ codec.eerr = None
    /\ codec' = [codec EXCEPT !.pc = "decoded",
                              !.out = deserialize(codec.data, codec.fds)]
    /\ UNCHANGED <<connVars, srvVars, fd, again>>

NextCodec ==
    \/ \E v \in NativeValues : Encode(v)
    \/ \E n \in 0..MaxOffset : Truncate(n)
    \/ \E j \in Junk : AppendJunk(j)
    \/ \E at \in {"top", "item", "key", "value"},
          m \in MARKER_ARRAY_END..MARKER_UNKNOWN : PutMarker(at, m)
    \/ DropFd
    \/ Decode

SpecCodec == Init /\ [][NextCodec]_vars

\* ================================================================ claims
InProgress(c) == cpc[c] \in {"parked", "wait"}
AttachEnded == apc \in {"returned", "raised"}
Written(t) == \E k \in DOMAIN wire : wire[k].task = t
Submitted(t) == \E k \in DOMAIN submitted : submitted[k] = t
TransportErrors == {TransportError, WriteError}

C2_DistinctNumbers ==
    \A c, d \in Callers :
        (InProgress(c) /\ ckind[c] = "send") =>
            /\ cnum[c] \in DOMAIN requests /\ requests[cnum[c]] = c
            /\ (d # c /\ InProgress(d) /\ ckind[d] = "send") => cnum[d] # cnum[c]

\* Two sends are in progress after the counter has wrapped.
C2_Witness ==
    /\ calls > MaxNum
    /\ \E c, d \in Callers : c # d /\ InProgress(c) /\ InProgress(d)

\* C3 (as claimed): once attach has ended with its cleanup run to the end,
\* no send whose REQUEST was written is still suspended on a Result that
\* nobody set or failed.
C3_WaitersWoken ==
    (AttachEnded /\ outbox = "closed") =>
        \A c \in Callers :
            ~(ckind[c] = "send" /\ cpc[c] = "wait" /\ Written(c) /\ ~cell[c].event)

\* C4: with the sticky error set, a call of send or notify ends at once by
\* raising it, and offers nothing to the outbox.
C4_FailsAfterError ==
    [][\A c \in Callers :
          (error # None /\ cpc[c] = "idle" /\ cpc'[c] # "idle") =>
              /\ cpc'[c] = "raised" /\ cexc'[c] = error
              /\ sendTasks' = sendTasks /\ wmsg' = wmsg
              /\ submitted' = submitted /\ requests' = requests]_vars

\* A call made after a transport error raised that error.
C4_Witness ==
    /\ error = TransportError
    /\ \E c \in Callers :
           cpc[c] = "raised" /\ ~Submitted(c) /\ cexc[c] = TransportError

\* C5: when the sticky error is a transport error, every send or notify
\* that failed after it had offered its message raised that error.
C5_InProgressRaiseSticky ==
    error \in TransportErrors =>
        \A c \in Callers :
            (cpc[c] = "raised" /\ Submitted(c)) => cexc[c] = error

\* The read failed while a caller's frame was being written; the caller
\* raised the read's error.
C5_Witness ==
    /\ error = TransportError
    /\ \E c \in Callers :
           cpc[c] = "raised" /\ Submitted(c) /\ cexc[c] = TransportError

\* C6 (as claimed): after a handler raised, the connection ends with the
\* handler's exception as its sticky error.
C6_HandlerErrorSticky ==
    (AttachEnded /\ attachExc = HandlerError) => error = HandlerError

\* C7: the frames on the wire are the offered messages in the order they
\* were offered: none repeated or out of order, and none passed over except
\* the RESPONSE of a dispatch task that was cancelled before its handoff.
Pos(t) == CHOOSE p \in DOMAIN submitted : submitted[p] = t
Withdrawn(t) == t \notin Callers /\ disp[t - NumCallers].pc = "done" /\ ~Written(t)
C7_WireOrder ==
    /\ \A k \in DOMAIN wire : Submitted(wire[k].task)
    /\ \A j, k \in DOMAIN wire : j < k => Pos(wire[j].task) < Pos(wire[k].task)
    /\ \A k \in DOMAIN wire : \A p \in DOMAIN submitted :
           p < Pos(wire[k].task) => Written(submitted[p]) \/ Withdrawn(submitted[p])

\* Three frames are on the wire, a RESPONSE among them.
C7_Witness ==
    /\ Len(wire) >= 3
    /\ \E k \in DOMAIN wire : wire[k].flags = RESPONSE

\* C8: a notify that returned has its NOTIFICATION frame on the wire.
C8_NotifyWritten ==
    \A c \in Callers :
        (ckind[c] = "notify" /\ cpc[c] = "returned") =>
            \E k \in DOMAIN wire :
                wire[k] = [task |-> c, num |-> 0, flags |-> NOTIFICATION]

\* A notify returned though no frame was ever read from the peer.
C8_Witness ==
    /\ disp = <<>> /\ rpc = "read"
    /\ \E c \in Callers : ckind[c] = "notify" /\ cpc[c] = "returned"

\* C9 (as claimed): after a clean close by the peer, with no handler
\* failure, attach ends by returning and the sticky error is closed-resource.
C9_CleanClose ==
    (AttachEnded /\ peerClosed /\ readerExc = None) =>
        (apc = "returned" /\ error = Closed)

\* C10 (as claimed): attach ends by raising exactly when the sticky error is
\* an error other than closed-resource, and then raises that error.
C10_AttachRaisesSticky ==
    AttachEnded =>
        /\ (apc = "raised") <=> (error \notin {None, Closed})
        /\ apc = "raised" => attachExc = error

\* C11 (as claimed): when attach has ended, nothing is left parked on the
\* outbox, every message that was offered and not written has its cell
\* failed with the sticky error, the outbox receiver is closed and the
\* socket is closed.
C11_CleanupRan ==
    AttachEnded =>
        /\ sendTasks = <<>>
        /\ outbox = "closed" /\ socket = "closed"
        /\ \A c \in Callers :
               (Submitted(c) /\ ~Written(c) /\ cpc[c] \in {"parked", "wait"}) =>
                   (cell[c].event /\ cell[c].error = error)

\* C13: the dispatch of a RESPONSE frame whose num is no key of _requests
\* sets no cell and raises into the nursery; after a dispatch task raised,
\* the reader reads no further frame and attach ends by raising.
UnknownResponse(i) ==
    /\ i \in DOMAIN disp /\ disp[i].pc = "start"
    /\ FrameKind(disp[i].flags) = "response"
    /\ disp[i].num \notin DOMAIN requests
C13_UnknownNum ==
    /\ [][\A i \in 1..MaxFrames :
            (UnknownResponse(i) /\ disp'[i].pc = "done" /\ scope' = scope) =>
                (readerExc' # None /\ \A t \in Tasks : cell'[t].value = cell[t].value)]_vars
    /\ [](readerExc # None => ~ReaderReady)
    /\ []((AttachEnded /\ readerExc # None) =>
              (apc = "raised" /\ attachExc \in {readerExc, TypeError}))

\* A RESPONSE with an unknown num was read and attach raised KeyError.
C13_Witness ==
    /\ readerExc = KeyError /\ apc = "raised" /\ attachExc = KeyError
    /\ \A t \in Tasks : ~cell[t].event

\* C15: a message offered by a dispatch task is the RESPONSE to a REQUEST
\* frame, with that frame's num and flags RESPONSE; it is offered once, as
\* soon as the handler has returned; callers offer no RESPONSE.
Offers(t) == Cardinality({k \in DOMAIN submitted : submitted[k] = t})
Outgoing == {sendTasks[k] : k \in DOMAIN sendTasks} \cup {wmsg}
               \cup {wire[k] : k \in DOMAIN wire}
C15_OneResponse ==
    /\ \A i \in DOMAIN disp :
           /\ Offers(DispTask(i)) <= 1
           /\ disp[i].pc \in {"parked", "wait"} => Offers(DispTask(i)) = 1
           /\ Offers(DispTask(i)) = 1 => FrameKind(disp[i].flags) = "request"
    /\ \A m \in Outgoing :
           /\ m.task \in Callers => m.flags \in {REQUEST, NOTIFICATION}
           /\ m.task > NumCallers =>
                  /\ FrameKind(disp[m.task - NumCallers].flags) = "request"
                  /\ m.flags = RESPONSE
                  /\ m.num = disp[m.task - NumCallers].num
    /\ \A j, k \in DOMAIN wire : (j # k) => wire[j].task # wire[k].task

\* The RESPONSE to a REQUEST frame is on the wire.
C15_Witness ==
    \E k \in DOMAIN wire : wire[k].task > NumCallers /\ wire[k].flags = RESPONSE

\* C12: close() has one outcome in every state and never raises; calling
\* it again right after a call changes nothing more, and a call before
\* attach or after attach's cleanup has closed the socket changes nothing.
C12_CloseIdempotent ==
    /\ CloseOf(CloseOf(CloseView)) = CloseOf(CloseView)
    /\ apc = "init" => CloseOf(CloseView) = CloseView
    /\ (AttachEnded /\ socket = "closed") => CloseOf(CloseView) = CloseView

\* close() was called while the run loop was active and ended a parked
\* dispatch task; attach has not yet run its cleanup.
C12_Witness ==
    /\ apc = "running" /\ scope = "cancelled" /\ socket = "closed"
    /\ CloseOf(CloseView) = CloseView
    /\ \E c \in Callers : cpc[c] = "parked"

\* C16 (as claimed): once the RESPONSE to a send that was cancelled after
\* its REQUEST was written has been dispatched, the send's number is no key
\* of the outstanding-requests map.
C16_NumberFreed ==
    \A c \in Callers :
        (ckind[c] = "send" /\ cpc[c] = "cancelled" /\ Written(c)
            /\ cell[c].event /\ cell[c].error = None)
        => cnum[c] \notin DOMAIN requests

\* C14: while the request handler is suspended in its nested send the
\* reader is in transport.read, ready for the next frame; and the handshake
\* completes: the nested send returns the peer's answer and the RESPONSE to
\* the peer's REQUEST is written.
HandlerSuspended ==
    /\ NestedHandler \in DOMAIN disp /\ disp[NestedHandler].pc = "start"
    /\ InProgress(NestedCaller)
HandshakeDone ==
    /\ cpc[NestedCaller] = "returned"
    /\ FrameKind(disp[cval[NestedCaller]].flags) = "response"
    /\ \E k \in DOMAIN wire :
           wire[k] = [task |-> DispTask(NestedHandler), num |-> MaxNum,
                      flags |-> RESPONSE]
C14_NestedCompletes ==
    /\ [](HandlerSuspended => ReaderReady)
    /\ <>HandshakeDone

\* The handler is suspended in its send, and a NOTIFICATION read after the
\* handler's REQUEST has been dispatched.
C14_Witness ==
    /\ HandlerSuspended
    /\ \E i \in DOMAIN disp :
           FrameKind(disp[i].flags) = "notification" /\ disp[i].pc = "done"

\* ---------------------------------------------------------- the listener
Live(k) == conn[k].pc \in {"entered", "running", "handler"}
ServeEnded == servePc \in {"returned", "raised"}

\* C17: the error handler is called for a connection exactly when its
\* attach raised an Exception, once, with that exception; and as long as
\* no handler raised and close() was not called, serve keeps accepting and
\* no connection is cancelled.
C17_HandlerOnce ==
    /\ \A k \in DOMAIN conn :
           /\ conn[k].handled <= 1
           /\ conn[k].exc \notin {None, Cancelled} =>
                  (conn[k].handled = 1 /\ conn[k].harg = conn[k].exc)
           /\ conn[k].exc \in {None, Cancelled} => conn[k].handled = 0
    /\ ~SrvCancelled =>
           /\ servePc \in {"init", "accepting"}
           /\ \A k \in DOMAIN conn : ~conn[k].cancelled /\ conn[k].pc # "raised"

\* One connection ended with a transport error and its handler returned;
\* another one runs on and the listener accepts.
C17_Witness ==
    /\ servePc = "accepting" /\ ~SrvCancelled
    /\ \E j, k \in DOMAIN conn :
           /\ conn[j].pc = "done" /\ conn[j].exc = TransportError
           /\ conn[j].handled = 1
           /\ conn[k].pc = "running"

\* C18 (as claimed): when serve has ended by raising, it raised what the
\* error handler raised, every _accept task has ended and every connection
\* that was cancelled with the listener has its socket closed; and serve
\* ends only after a handler raised or close() was called.
C18_HandlerRaiseEnds ==
    /\ servePc = "raised" =>
           /\ serveExc \in {HandlerFailure, MultiError}
           /\ \A k \in DOMAIN conn :
                  TaskEnded(k) /\ (conn[k].cancelled => conn[k].sock # "open")
    /\ ServeEnded => (nurseryExc # <<>> \/ srvScope = "cancelled")

\* C19 (as claimed): when close() was called while serve ran and no
\* connection had failed by itself, serve ends by returning, the map is
\* empty and no connection's socket is left open.
C19_CloseEnds ==
    (/\ srvScope = "cancelled" /\ ServeEnded
     /\ \A k \in DOMAIN conn : conn[k].handled = 1 => conn[k].cancelled)
    => /\ servePc = "returned"
       /\ connections = <<>>
       /\ \A k \in DOMAIN conn : conn[k].sock # "open"

\* C20 (as claimed): the map holds exactly the connections whose attach
\* has not ended, each under its own number.
C20_MapIsRunning ==
    /\ \A n \in DOMAIN connections :
           /\ conn[connections[n]].pc \in {"entered", "running"}
           /\ conn[connections[n]].num = n
    /\ \A k \in DOMAIN conn :
           conn[k].pc \in {"entered", "running"} => InMap(k)

\* C20 (amended): the map holds exactly the connections whose _accept task
\* has taken its number and has not ended (attach runs, or the error
\* handler does), each under its own number.
C20_MapIsAccepting ==
    /\ \A n \in DOMAIN connections :
           /\ connections[n] \in DOMAIN conn
           /\ Live(connections[n])
           /\ conn[connections[n]].num = n
    /\ \A k \in DOMAIN conn :
           Live(k) => /\ conn[k].num \in DOMAIN connections
                      /\ connections[conn[k].num] = k
    /\ \A j, k \in DOMAIN conn :
           (j # k /\ Live(j) /\ Live(k)) => conn[j].num # conn[k].num

\* The counter has wrapped: a connection accepted after an ended one got a
\* number while an older connection still holds its own.
C20_Witness ==
    \E i, j, k \in DOMAIN conn :
        /\ i < j /\ j < k
        /\ Live(i) /\ TaskEnded(j) /\ Live(k)
        /\ conn[k].num > conn[i].num

\* C21: the address stored on an accepted client's Connection is the peer
\* address accept returned for that client's socket.
C21_AddressIsPeer ==
    \A k \in DOMAIN conn :
        conn[k].address # None => conn[k].address = conn[k].peer

\* C22: every number the wrapped counter yields lies in [start, limit),
\* at each wrap too.
C22_InRange ==
    \A c \in Callers :
        cnum[c] # 0 => (CounterStart <= cnum[c] /\ cnum[c] < MaxNum)

\* C24: the handle closes its descriptor at most once, and destruction
\* closes it exactly when the handle was still owned.
C24_ClosedOnce ==
    /\ [](fd.closes <= 1)
    /\ [][fd.pc = "alive" /\ fd'.pc = "destroyed" =>
              (fd'.closes = fd.closes + 1 <=> fd.owned)]_vars
    /\ [][fd'.closes # fd.closes =>
              (fd.owned /\ ~fd'.owned /\ fd'.open = fd.open \ {fd.value})]_vars

\* A handle was closed early and then destroyed; another was destroyed
\* while owned.
C24_Witness ==
    fd.pc = "destroyed" /\ fd.closes = 1 /\ ~fd.wasOwned

\* C25: take() on an owned handle clears the flag and returns the handle's
\* descriptor; on a handle that is not owned it returns a fresh, valid
\* descriptor and does not fail.
C25_TakeNeverFails ==
    fd.op = "take" =>
        /\ ~fd.owned /\ fd.exc = None
        /\ fd.wasOwned => fd.ret = fd.value
        /\ ~fd.wasOwned => fd.ret \in fd.open /\ fd.ret # fd.value

\* C23: a result cell leaves the pending state once: after its first set
\* or fail, no later set or fail changes the stored value or error.
C23_SetOnce ==
    [][\A t \in Tasks :
           cell[t].event =>
               (cell'[t].value = cell[t].value /\ cell'[t].error = cell[t].error)]_vars

\* Task t's message leaves the outbox because a receiver took it: t
\* resumes after its send.
Delivered(t) ==
    /\ \E i \in DOMAIN sendTasks : sendTasks[i].task = t
    /\ ~\E i \in DOMAIN sendTasks' : sendTasks'[i].task = t
    /\ IF t \in Callers THEN cpc'[t] = "wait"
       ELSE disp'[t - NumCallers].pc = "wait"

\* C30: one receiver at a time: while the run loop lives only the writer
\* task takes messages from the outbox, and the shutdown drain takes one
\* only after the writer task has ended.
C30_OneReceiver ==
    /\ [](apc \in {"closing", "raised", "returned"} => wpc = "done")
    /\ [][\A t \in Tasks :
              Delivered(t) =>
                  \/ /\ apc = "running" /\ wpc \in {"start", "write"}
                     /\ wpc' = "write" /\ wmsg'.task = t
                  \/ /\ apc = "running" /\ wpc = "done" /\ wpc' = "done"
                     /\ apc' = "raised"]_vars

\* The writer wrote one message and, after it ended, the drain took another.
C30_Witness == attachExc = TypeError /\ wire # <<>> /\ wpc = "done"

\* A list and a tuple are the same array.
RECURSIVE AsArrays(_)
AsArrays(v) ==
    [v EXCEPT !.t = IF @ = "tuple" THEN "list" ELSE @,
              !.s = [i \in DOMAIN v.s |-> AsArrays(v.s[i])]]
Decoded(how) == codec.pc = "decoded" /\ codec.how \in how

\* C26: for a value without Fd handles, deserialize(serialize(v)) is v.
C26_RoundTrip ==
    FdsOf(codec.value) = <<>> =>
        /\ codec.pc = "encoded" => codec.eerr = None
        /\ Decoded({"valid"}) =>
               (codec.out.err = None /\ codec.out.val = AsArrays(codec.value))

\* C27: data with bytes after the value, with an unknown marker or with a
\* closing marker out of place makes deserialize raise DecoderError.
C27_MalformedRaises ==
    Decoded({"trailing", "marker"}) => codec.out.err = DecoderError

\* C28: truncated data, and an FD index outside the FD list, make
\* deserialize raise DecoderError.
C28_TruncatedRaises ==
    Decoded({"truncated", "fdmissing"}) => codec.out.err = DecoderError

\* C29: serialize hands out the value's k Fd handles as a list of length
\* k in the order of their markers, and after deserialize each of them is
\* at one place of the value.
C29_FdsPassed ==
    FdsOf(codec.value) # <<>> =>
        /\ codec.pc = "encoded" /\ codec.how = "valid" =>
               (codec.eerr = None /\ codec.fds = FdsOf(codec.value))
        /\ Decoded({"valid"}) =>
               (codec.out.err = None /\ FdsOf(codec.out.val) = codec.fds)

\* C31: a write that ends without its frame (transport.write raised, or the
\* writer was cancelled inside it) fails that message's cell with the sticky
\* error, which is the first error recorded; a raising write also cancels
\* the run scope, a cancelled one records closed-resource when no error was
\* recorded before; and the writer, once out of its loop, writes no frame.
WriteAbandoned ==
    wpc = "write" /\ wire' = wire /\ (wpc' # wpc \/ wmsg' # wmsg)

C31_WriterFails ==
    /\ [][WriteAbandoned =>
            /\ wpc' = "done"
            /\ error' # None /\ (error # None => error' = error)
            /\ cell'[wmsg.task].event /\ cell'[wmsg.task].error = error'
            /\ (error = None => error' \in {WriteError, Closed})
            /\ (error = None /\ error' = WriteError => scope' = "cancelled")
            /\ (error = None /\ error' = Closed => WriterCancelledNow)
            /\ (~WriterCancelledNow => scope' = "cancelled")]_vars
    /\ [][wpc = "done" => wire' = wire /\ wpc' = "done"]_vars

C31_Witness ==
    /\ wpc = "done" /\ scope = "cancelled" /\ error = WriteError
    /\ \E c \in Callers : cell[c].event /\ cell[c].error = WriteError

\* C34: the sticky error, once set, never changes: a later transport error,
\* a writer cancellation and the shutdown default leave it in place; and the
\* step in which attach enters _shutdown records closed-resource exactly
\* when no error was recorded before it.
ShutdownEntered == apc = "running" /\ apc' # "running"

C34_StickyError ==
    /\ [][error # None => error' = error]_vars
    /\ [][ShutdownEntered =>
            error' = IF error = None THEN Closed ELSE error]_vars

C34_Witness ==
    /\ AttachEnded /\ error = TransportError /\ wpc = "done"
    /\ \E c \in Callers : cell[c].event /\ cell[c].error = TransportError

\* C35 (as claimed): the keys of the outstanding-requests map are exactly
\* the numbers of the sends in progress: a send that has ended, by returning
\* or by raising, has no key in the map.
C35_MapIsInProgress ==
    /\ \A n \in DOMAIN requests :
           /\ ckind[requests[n]] = "send" /\ cnum[requests[n]] = n
           /\ InProgress(requests[n])
    /\ \A c \in Callers :
           ckind[c] = "send" /\ InProgress(c) => cnum[c] \in DOMAIN requests

\* C32: every REQUEST frame that send puts on the wire carries a num in
\* 1..MaxNum (MaxNum standing for 2^31-1) and never 0, every NOTIFICATION
\* frame of notify carries num 0, and the allocation that follows the one
\* of MaxNum yields CounterStart.
Allocates(c) == cnum[c] = 0 /\ cnum'[c] # 0

C32_RequestNumbers ==
    /\ [](\A k \in DOMAIN wire :
             /\ wire[k].flags = REQUEST =>
                    wire[k].num \in 1..MaxNum /\ wire[k].num # 0
             /\ wire[k].flags = NOTIFICATION => wire[k].num = 0)
    /\ [][\A c \in Callers :
             Allocates(c) /\ cnum'[c] = MaxNum =>
                 counter' = CounterStart]_vars
    /\ [][\A c \in Callers :
             (Allocates(c) /\ counter = CounterStart
                 /\ CounterStart \notin DOMAIN requests)
             => cnum'[c] = CounterStart]_vars

C32_Witness ==
    \E i, j \in DOMAIN wire :
        /\ i < j
        /\ wire[i].flags = REQUEST /\ wire[i].num = MaxNum
        /\ wire[j].flags = REQUEST /\ wire[j].num = CounterStart
        /\ \A k \in DOMAIN wire :
               (i < k /\ k < j) => wire[k].flags = NOTIFICATION

\* C36 (as claimed): a second attach or connect on a connection that has
\* entered its run loop, running or shut down, raises RuntimeError and
\* leaves the socket, the outbox, the scope and the tasks of the first run
\* as they are.
C36_OneRunLoop ==
    [][again' # again =>
          /\ again'.exc = RuntimeError
          /\ socket' = socket /\ outbox' = outbox /\ scope' = scope
          /\ apc' = apc /\ rpc' = rpc /\ wpc' = wpc]_vars

\* C36 (amended): a second attach, and a second connect whose new socket
\* has connected, raise RuntimeError; a second connect whose new socket
\* does not connect raises the error of that connect; in each case the
\* socket, the outbox, the scope and the tasks of the first run are left
\* as they are.
C36_OneRunLoopOnceConnected ==
    [][again' # again =>
          /\ again'.exc = IF again'.sock = "unconnected"
                          THEN ConnectError ELSE RuntimeError
          /\ socket' = socket /\ outbox' = outbox /\ scope' = scope
          /\ apc' = apc /\ rpc' = rpc /\ wpc' = wpc]_vars

C36_Witness ==
    /\ again.via = "connect" /\ again.exc = RuntimeError
    /\ AttachEnded /\ socket = "closed"

\* The socket accept() returned for task k: open from accept on, and closed
\* only by the connection it was stored in.
AcceptedSocket(k) == IF conn[k].sock = "none" THEN "open" ELSE conn[k].sock

\* C33 (as claimed): when serve has ended, every socket it accepted has
\* been closed, the socket of a task that was cancelled before attach stored
\* it included.  (A connection whose cleanup raised TypeError is left out.)
C33_SocketsClosed ==
    ServeEnded =>
        \A k \in DOMAIN conn :
            conn[k].exc # TypeError => AcceptedSocket(k) = "closed"

====
